---- MODULE Spec2Model ----
(***************************************************************************)
(* Shift scheduler: slot generation (app/routes.py,                        *)
(* generate_slots_and_assign_action) and the fair assignment engine        *)
(* (app/algorithm.py, assign_shifts_fairly).                               *)
(*                                                                         *)
(* Instants are integers counting minutes from 00:00 of day 0 (the forms   *)
(* accept dates and '%H:%M' clock times, role durations are given in       *)
(* days/hours/minutes).  Real hours are kept in minutes, ratings and    *)
(* alpha in tenths, base difficulties in hundredths (the ratings import    *)
(* stores averages rounded to two decimals) and the hybrid difficulty in   *)
(* thousandths, so weighted hours are kept in thousandths of a minute.     *)
(***************************************************************************)
EXTENDS Integers, Sequences, FiniteSets, TLC

(* ------------------------------------------------------------------ *)
(* Optional values (Python None / a value)                            *)
(* ------------------------------------------------------------------ *)
None == {}
Some(x) == {x}
Val(o) == CHOOSE x \in o : TRUE

Min2(a, b) == IF a <= b THEN a ELSE b
Max2(a, b) == IF a >= b THEN a ELSE b

Range(s) == {s[i] : i \in 1..Len(s)}

(* ------------------------------------------------------------------ *)
(* Calendar arithmetic                                                *)
(* ------------------------------------------------------------------ *)
MinutesPerHour == 60
DayLen == 1440
H(h) == h * MinutesPerHour

\* datetime.time(): the clock time of an instant
Clock(t) == t % DayLen
\* datetime.date(): the calendar day of an instant
DateOf(t) == t \div DayLen
\* datetime.replace(hour=.., minute=.., second=0, microsecond=0)
ReplaceClock(t, c) == (t - Clock(t)) + c

(* ------------------------------------------------------------------ *)
(* The process-wide generator of module random                        *)
(* ------------------------------------------------------------------ *)
\* The generator is a deterministic function of its state: the state is an
\* integer below RngMod, a draw moves it one step and returns it.
RngMod == 8

NextRng(s) == (5 * s + 3) % RngMod

\* The state after k draws
RECURSIVE RngAfter(_, _)
RngAfter(s, k) == IF k = 0 THEN s ELSE RngAfter(NextRng(s), k - 1)

\* The k values drawn from state s, in order
DrawsFrom(s, k) == [ i \in 1..k |-> RngAfter(s, i) ]

\* Variant of random.seed that leaves the generator as it was
Seeded_Skip(s, n) == s

\* random.seed(n): the state is a function of n alone
Seeded(s, n) == n % RngMod

\* random.randint(a, b), drawn from state s
randint(s, a, b) == a + (NextRng(s) % (b - a + 1))

\* random.shuffle(x): for i from the last position down to the second,
\* swap x[i] with x[j], j drawn among the first i positions
RECURSIVE ShuffleFrom(_, _, _)
ShuffleFrom(x, s, i) ==
    IF i < 2 THEN x
    ELSE LET s1 == NextRng(s)
             j == 1 + (s1 % i)
         IN  ShuffleFrom([ x EXCEPT ![i] = x[j], ![j] = x[i] ], s1, i - 1)

shuffle(x, s) == ShuffleFrom(x, s, Len(x))

\* Number of draws shuffle makes on x
ShuffleDraws(x) == IF Len(x) < 2 THEN 0 ELSE Len(x) - 1

(* ------------------------------------------------------------------ *)
(* JobRole                                                            *)
(* ------------------------------------------------------------------ *)
has_time_restrictions(role) ==
    role.work_start_time /= None /\ role.work_end_time /= None

get_duration_timedelta(role) == role.duration

\* Variant that counts the end of the window as inside it
is_time_within_role_restrictions_Inclusive(check_time, role) ==
    IF ~has_time_restrictions(role) THEN TRUE
    ELSE LET check_time_only == Clock(check_time)
             ws == Val(role.work_start_time)
             we == Val(role.work_end_time)
         IN  IF role.is_overnight_shift
             THEN check_time_only >= ws \/ check_time_only <= we
             ELSE ws <= check_time_only /\ check_time_only <= we

is_time_within_role_restrictions(check_time, role) ==
    IF ~has_time_restrictions(role) THEN TRUE
    ELSE LET check_time_only == Clock(check_time)
             ws == Val(role.work_start_time)
             we == Val(role.work_end_time)
         IN  IF role.is_overnight_shift
             THEN check_time_only >= ws \/ check_time_only < we
             ELSE ws <= check_time_only /\ check_time_only < we

get_next_valid_start_time(current_time, role, period_end) ==
    IF ~has_time_restrictions(role) THEN current_time + 30
    ELSE LET current_time_only == Clock(current_time)
             ws == Val(role.work_start_time)
             we == Val(role.work_end_time)
         IN  IF role.is_overnight_shift
             THEN LET next_start ==
                        IF current_time_only >= ws
                        THEN ReplaceClock(current_time, ws) + DayLen
                        ELSE IF current_time_only < we
                        THEN ReplaceClock(current_time, ws)
                        ELSE ReplaceClock(current_time, ws)
                  IN  Min2(next_start, period_end)
             ELSE IF current_time_only < ws
                  THEN ReplaceClock(current_time, ws)
                  ELSE Min2(ReplaceClock(current_time, ws) + DayLen, period_end)

constrain_slot_to_working_hours(slot_start, slot_end, role) ==
    IF ~has_time_restrictions(role) THEN slot_end
    ELSE LET start_time_only == Clock(slot_start)
             ws == Val(role.work_start_time)
             we == Val(role.work_end_time)
         IN  IF role.is_overnight_shift
             THEN LET working_hours_end ==
                        IF start_time_only >= ws
                        THEN ReplaceClock(slot_start, we) + DayLen
                        ELSE IF start_time_only < we
                        THEN ReplaceClock(slot_start, we)
                        ELSE ReplaceClock(slot_start, we)
                  IN  Min2(slot_end, working_hours_end)
             ELSE LET same_day_end0 == ReplaceClock(slot_start, we)
                      same_day_end == IF same_day_end0 <= slot_start
                                      THEN same_day_end0 + DayLen
                                      ELSE same_day_end0
                  IN  Min2(slot_end, same_day_end)

(* ------------------------------------------------------------------ *)
(* Role form validation (add role / edit role)                        *)
(* ------------------------------------------------------------------ *)
\* The checks a submitted role passes before it is stored.  An overnight
\* role whose end is not earlier than its start only draws a warning.
role_submission_accepted(number_needed, total_duration_minutes, has_restrictions, ws, we, is_overnight) ==
    /\ number_needed >= 1
    /\ total_duration_minutes >= 20
    /\ has_restrictions => ~(~is_overnight /\ we <= ws)

\* The stored row of an accepted submission
JobRole(id, number_needed, duration, has_restrictions, ws, we, is_overnight, difficulty) ==
    [ id |-> id,
      number_needed |-> number_needed,
      duration |-> duration,
      work_start_time |-> IF has_restrictions THEN Some(ws) ELSE None,
      work_end_time |-> IF has_restrictions THEN Some(we) ELSE None,
      is_overnight_shift |-> is_overnight,
      difficulty_multiplier |-> difficulty ]

(* ------------------------------------------------------------------ *)
(* State                                                              *)
(* ------------------------------------------------------------------ *)
VARIABLES
    \* ---- persisted rows (committed) ----
    period,                    \* SchedulingPeriod row: [start, end]
    db_roles,                  \* JobRole rows of the period, in stored order
    db_workers,                \* Worker rows, in stored order
    db_ratings,                \* WorkerRoleRating rows
    db_slots,                  \* ShiftDefinition rows
    db_assignments,            \* ScheduledShift rows
    alpha,                     \* config DIFFICULTY_ALPHA, in tenths
    \* ---- the running request ----
    pc,                        \* position of the running handler
    rng,                       \* state of the process-wide random generator
    random_seed,               \* the seed the request passed to random.seed
    draw_log,                  \* the values drawn from the generator since seeding
    run_no,                    \* number of generate-and-assign requests started
    prev_run,                  \* seed, draws and outcome of the previous request
    db_at_start,               \* the period's slots and assignments when the request began
    call,                      \* the last call of a helper function: arguments and result
    ratings_import,            \* what the last ratings import read, flagged and reported
    other_request,             \* the locals of a second request handled by another worker process
    job_roles_for_period,      \* roles of the period, in processing order
    role_idx,                  \* index of the role being generated
    current_dt_for_role,       \* the generator's cursor
    iter_count,
    consecutive_invalid_slots,
    generated_slot_objects,    \* slots added to the session, in order
    flashes,                   \* messages flashed to the operator
    \* ---- assign_shifts_fairly ----
    workers,                   \* the worker list passed to the engine
    all_pending_assignments,   \* the ScheduledShift objects passed to the engine
    idx,                       \* number of pending assignments processed
    worker_assigned_hours_in_period,   \* real minutes per worker id
    worker_weighted_hours,             \* minutes x difficulty (thousandths) per worker id
    worker_shift_assignments_in_run,   \* slots given to each worker id in this run
    recent_role_assignments,           \* set of <<worker id, date, role id>>
    unassigned_count,
    assigned_count,
    algo_messages,             \* the diagnostics: sequence of <<severity, text>>
    result                     \* None until the engine returns, then Some(success)

dbVars == << period, db_roles, db_workers, db_ratings, db_slots, db_assignments, alpha >>

genVars == << job_roles_for_period, role_idx, current_dt_for_role, iter_count,
              consecutive_invalid_slots, generated_slot_objects >>

engVars == << workers, all_pending_assignments, idx, worker_assigned_hours_in_period,
              worker_weighted_hours, worker_shift_assignments_in_run,
              recent_role_assignments, unassigned_count, assigned_count,
              algo_messages, result >>

logVars == << run_no, prev_run >>

auxVars == << call, ratings_import, other_request >>

vars == << dbVars, logVars, db_at_start, auxVars, pc, rng, random_seed, draw_log, genVars, flashes, engVars >>

\* ScheduledShift(shift_definition_id=...): a placeholder without worker
ScheduledShift(id, shift_definition_id) ==
    [ id |-> id, shift_definition_id |-> shift_definition_id, worker_id |-> None ]

(* ------------------------------------------------------------------ *)
(* generate_slots_and_assign_action (app/routes.py)                   *)
(* ------------------------------------------------------------------ *)
SeedMin == 1
SeedMax == 999999

\* int(random_seed) succeeded and the value is inside [1, 999999]
SeedIsValid(form) ==
    /\ form.raw = "int"
    /\ ~( Val(form.n) < SeedMin \/ Val(form.n) > SeedMax )

\* The warnings of the seed handling
SeedFlashes(form) ==
    IF form.raw = "empty" \/ SeedIsValid(form) THEN << >>
    ELSE IF form.raw = "int" THEN << << "warning", "seed_out_of_range" >> >>
    ELSE << << "warning", "invalid_seed" >> >>

\* The worker each stored slot of the period has: what a run produced
Outcome ==
    { << sd.job_role_id, sd.slot_start_datetime, sd.slot_end_datetime, sd.instance_number,
         IF \E a \in db_assignments : Some(a.shift_definition_id) = sd.id
         THEN (CHOOSE a \in db_assignments : Some(a.shift_definition_id) = sd.id).worker_id
         ELSE None >> : sd \in db_slots }

\* A commit of the request was refused by the database
CommitFault ==
    \/ \E k \in 1..Len(flashes) : flashes[k] = << "danger", "commit_slots_failed" >>
    \/ \E k \in 1..Len(algo_messages) : algo_messages[k] = << "error", "commit_failed" >>

\* The request is over: it redirected, or it raised
RunOver == pc \in { "request_done", "request_raised" }

\* Entry of the handler: seed handling, clearing of the period's old slots
\* and assignments, role query and shuffle.
RequestStart(form) ==
    /\ pc = "idle" \/ RunOver
    /\ run_no' = run_no + 1
    /\ prev_run' = IF random_seed = None THEN None
                   ELSE Some([ seed |-> Val(random_seed), draws |-> draw_log,
                               outcome |-> Outcome, fault |-> CommitFault ])
    /\ LET auto == ~SeedIsValid(form)
           seed == IF auto THEN randint(rng, SeedMin, SeedMax) ELSE Val(form.n)
           seeded == Seeded(IF auto THEN NextRng(rng) ELSE rng, seed)
       IN  /\ random_seed' = Some(seed)
           /\ db_assignments' = {}
           /\ db_slots' = {}
           /\ IF Len(db_roles) = 0
              THEN /\ flashes' = Append(SeedFlashes(form), << "warning", "no_roles" >>)
                   /\ job_roles_for_period' = << >>
                   /\ rng' = seeded
                   /\ draw_log' = << >>
                   /\ pc' = "request_done"
              ELSE /\ flashes' = SeedFlashes(form)
                   /\ job_roles_for_period' = shuffle(db_roles, seeded)
                   /\ rng' = RngAfter(seeded, ShuffleDraws(db_roles))
                   /\ draw_log' = DrawsFrom(seeded, ShuffleDraws(db_roles))
                   /\ pc' = "role_start"
    /\ role_idx' = 1
    /\ current_dt_for_role' = 0
    /\ iter_count' = 0
    /\ consecutive_invalid_slots' = 0
    /\ generated_slot_objects' = << >>
    /\ workers' = << >>
    /\ all_pending_assignments' = << >>
    /\ idx' = 0
    /\ worker_assigned_hours_in_period' = << >>
    /\ worker_weighted_hours' = << >>
    /\ worker_shift_assignments_in_run' = << >>
    /\ recent_role_assignments' = {}
    /\ unassigned_count' = 0
    /\ assigned_count' = 0
    /\ algo_messages' = << >>
    /\ result' = None
    /\ db_at_start' = [ slots |-> db_slots, assignments |-> db_assignments ]
    /\ UNCHANGED << period, db_roles, db_workers, db_ratings, alpha, auxVars >>

max_iter == 5000

CurrentRole == job_roles_for_period[role_idx]

\* ShiftDefinition(...) as created by the generator; the id is set on commit
ShiftDefinition(slot_start, slot_end, i, role) ==
    [ id |-> None,
      slot_start_datetime |-> slot_start,
      slot_end_datetime |-> slot_end,
      instance_number |-> i,
      job_role_id |-> role.id ]

\* The slots one loop iteration adds: number_needed instances of [start, end)
NewSlots(slot_start, slot_end, role) ==
    [ i \in 1..role.number_needed |-> ShiftDefinition(slot_start, slot_end, i, role) ]

\* Clip the proposed end to the working window
WindowClippedEnd(slot_start, role) ==
    IF has_time_restrictions(role)
    THEN constrain_slot_to_working_hours(slot_start, slot_start + get_duration_timedelta(role), role)
    ELSE slot_start + get_duration_timedelta(role)

\* Variant without the period clip
PeriodClippedEnd_NoClip(slot_end, period_end) == slot_end

\* Clip the end to the period end
PeriodClippedEnd(slot_end, period_end) ==
    IF slot_end > period_end THEN period_end ELSE slot_end

\* Variant that advances the cursor to the clipped end of the slot
NextStartAfterSlot_Clipped(slot_start, role, period_end) ==
    LET slot_end == PeriodClippedEnd(WindowClippedEnd(slot_start, role), period_end)
    IN  IF has_time_restrictions(role) /\ ~is_time_within_role_restrictions(slot_end, role)
        THEN get_next_valid_start_time(slot_end, role, period_end)
        ELSE slot_end

\* Variant that leaves a gap of one duration after each slot
NextStartAfterSlot_SkipOne(slot_start, role, period_end) ==
    slot_start + 2 * get_duration_timedelta(role)

\* The cursor after a slot was emitted at slot_start
NextStartAfterSlot(slot_start, role, period_end) ==
    LET tentative_next_start == slot_start + get_duration_timedelta(role)
    IN  IF has_time_restrictions(role)
        THEN IF ~is_time_within_role_restrictions(tentative_next_start, role)
             THEN get_next_valid_start_time(tentative_next_start, role, period_end)
             ELSE tentative_next_start
        ELSE tentative_next_start

\* Start of generation for the next role of the list
RoleStart ==
    /\ pc = "role_start"
    /\ LET role == CurrentRole
           start == period.start
       IN  IF get_duration_timedelta(role) <= 0
           THEN /\ flashes' = Append(flashes, <<"warning", "zero_duration">>)
                /\ role_idx' = role_idx + 1
                /\ pc' = IF role_idx + 1 > Len(job_roles_for_period)
                         THEN "gen_done" ELSE "role_start"
                /\ UNCHANGED << current_dt_for_role, iter_count, consecutive_invalid_slots >>
           ELSE /\ current_dt_for_role' =
                     IF has_time_restrictions(role)
                        /\ ~is_time_within_role_restrictions(start, role)
                     THEN get_next_valid_start_time(start, role, period.end)
                     ELSE start
                /\ iter_count' = 0
                /\ consecutive_invalid_slots' = 0
                /\ pc' = "gen_loop"
                /\ UNCHANGED << role_idx, flashes >>
    /\ UNCHANGED << dbVars, logVars, db_at_start, auxVars, draw_log, rng, random_seed, engVars, job_roles_for_period, generated_slot_objects >>

\* One iteration of the while loop of slot generation
GenLoopIter ==
    /\ pc = "gen_loop"
    /\ current_dt_for_role < period.end
    /\ iter_count < max_iter
    /\ iter_count' = iter_count + 1
    /\ LET role == CurrentRole
           slot_start == current_dt_for_role
           slot_end == PeriodClippedEnd(WindowClippedEnd(slot_start, role), period.end)
       IN  IF has_time_restrictions(role)
              /\ ~is_time_within_role_restrictions(current_dt_for_role, role)
           THEN /\ current_dt_for_role' =
                     get_next_valid_start_time(current_dt_for_role, role, period.end)
                /\ consecutive_invalid_slots' = 0
                /\ UNCHANGED generated_slot_objects
           ELSE IF slot_start < slot_end
           THEN /\ generated_slot_objects' =
                     generated_slot_objects \o NewSlots(slot_start, slot_end, role)
                /\ current_dt_for_role' = NextStartAfterSlot(slot_start, role, period.end)
                /\ consecutive_invalid_slots' = 0
           ELSE IF consecutive_invalid_slots + 1 >= 10
           THEN /\ current_dt_for_role' =
                     IF has_time_restrictions(role)
                     THEN get_next_valid_start_time(current_dt_for_role + H(1), role, period.end)
                     ELSE current_dt_for_role + H(1)
                /\ consecutive_invalid_slots' = 0
                /\ UNCHANGED generated_slot_objects
           ELSE /\ current_dt_for_role' =
                     IF has_time_restrictions(role)
                     THEN get_next_valid_start_time(current_dt_for_role, role, period.end)
                     ELSE current_dt_for_role + 30
                /\ consecutive_invalid_slots' = consecutive_invalid_slots + 1
                /\ UNCHANGED generated_slot_objects
    /\ UNCHANGED << dbVars, logVars, db_at_start, auxVars, draw_log, rng, random_seed, engVars, pc, job_roles_for_period, role_idx, flashes >>

\* The loop of the current role is over: cap warning, then the next role
RoleEnd ==
    /\ pc = "gen_loop"
    /\ ~(current_dt_for_role < period.end /\ iter_count < max_iter)
    /\ flashes' = IF iter_count >= max_iter
                  THEN Append(flashes, <<"warning", "max_iterations">>)
                  ELSE flashes
    /\ role_idx' = role_idx + 1
    /\ pc' = IF role_idx + 1 > Len(job_roles_for_period) THEN "gen_done" ELSE "role_start"
    /\ UNCHANGED << dbVars, logVars, db_at_start, auxVars, draw_log, rng, random_seed, engVars, job_roles_for_period,
                    current_dt_for_role, iter_count, consecutive_invalid_slots,
                    generated_slot_objects >>

\* The id the database gave last: new rows are numbered from the highest id
\* of the table (from 1 when it is empty)
LastId(ids) == IF ids = {} THEN 0 ELSE CHOOSE m \in ids : \A k \in ids : k <= m

\* The rows of a set of assignments in id order
RECURSIVE ById(_)
ById(rows) ==
    IF rows = {} THEN << >>
    ELSE LET first == CHOOSE a \in rows : \A b \in rows : a.id <= b.id
         IN  << first >> \o ById(rows \ { first })

\* ScheduledShift joined with the period's ShiftDefinition, worker_id IS NULL
PendingOfPeriod(assignments, slots) ==
    ById({ a \in assignments :
             /\ a.worker_id = None
             /\ \E sd \in slots : sd.id = Some(a.shift_definition_id) })

\* After the role loop: commit of the generated slots, worker query and
\* shuffle, placeholders, pending query and shuffle, up to the engine call.
CommitSlotsAndPrepare ==
    /\ pc = "gen_done"
    /\ IF Len(generated_slot_objects) > 0
       THEN \/ \* the commit succeeds: the rows get their ids in insertion order
               LET first_slot == LastId({ Val(sd.id) : sd \in db_slots })
                   first_assignment == LastId({ a.id : a \in db_assignments })
                   stored == [ i \in 1..Len(generated_slot_objects) |->
                                 [ generated_slot_objects[i] EXCEPT !.id = Some(first_slot + i) ] ]
                   assignments_to_make ==
                       [ i \in 1..Len(stored) |->
                           ScheduledShift(first_assignment + i, first_slot + i) ]
                   stored_assignments == db_assignments \cup Range(assignments_to_make)
                   pending == PendingOfPeriod(stored_assignments, db_slots \cup Range(stored))
                   after_workers == RngAfter(rng, ShuffleDraws(db_workers))
               IN  /\ generated_slot_objects' = stored
                   /\ db_slots' = db_slots \cup Range(stored)
                   /\ IF Len(db_workers) = 0
                      THEN /\ flashes' = flashes \o << << "info", "slots_generated" >>,
                                                       << "warning", "no_workers" >> >>
                           /\ pc' = "request_done"
                           /\ UNCHANGED << db_assignments, workers, all_pending_assignments,
                                           rng, draw_log >>
                      ELSE /\ flashes' = Append(flashes, << "info", "slots_generated" >>)
                           /\ workers' = shuffle(db_workers, rng)
                           /\ db_assignments' = stored_assignments
                           /\ all_pending_assignments' = shuffle(pending, after_workers)
                           /\ rng' = RngAfter(after_workers, ShuffleDraws(pending))
                           /\ draw_log' = draw_log \o
                                 DrawsFrom(rng, ShuffleDraws(db_workers) + ShuffleDraws(pending))
                           /\ pc' = "engine_start"
            \/ \* the commit raises: rollback and redirect
               /\ flashes' = Append(flashes, << "danger", "commit_slots_failed" >>)
               /\ pc' = "request_done"
               /\ UNCHANGED << generated_slot_objects, db_slots, db_assignments, workers,
                               all_pending_assignments, rng, draw_log >>
       ELSE /\ flashes' = Append(flashes, << "warning", "no_new_slots" >>)
            /\ pc' = "request_done"
            /\ UNCHANGED << generated_slot_objects, db_slots, db_assignments, workers,
                            all_pending_assignments, rng, draw_log >>
    /\ UNCHANGED << period, db_roles, db_workers, db_ratings, alpha, logVars, db_at_start, auxVars, random_seed,
                    job_roles_for_period, role_idx, current_dt_for_role, iter_count,
                    consecutive_invalid_slots, idx, worker_assigned_hours_in_period,
                    worker_weighted_hours, worker_shift_assignments_in_run,
                    recent_role_assignments, unassigned_count, assigned_count,
                    algo_messages, result >>

(* ------------------------------------------------------------------ *)
(* assign_shifts_fairly (app/algorithm.py)                            *)
(* ------------------------------------------------------------------ *)
DatetimeMax == 1000000

\* Python truthiness of an optional integer: None and 0 are both false
Truthy(o) == o /= None /\ Val(o) /= 0

\* slot_def.job_role: the JobRole row the slot refers to, or None
job_role(slot_def) ==
    IF \E r \in Range(db_roles) : r.id = slot_def.job_role_id
    THEN Some(CHOOSE r \in Range(db_roles) : r.id = slot_def.job_role_id)
    ELSE None

duration_total_minutes(slot_def) ==
    slot_def.slot_end_datetime - slot_def.slot_start_datetime

is_worker_qualified_for_slot(worker, slot_def) ==
    IF job_role(slot_def) = None THEN FALSE
    ELSE slot_def.job_role_id \in worker.qualified_roles

\* Variant that skips the unavailability constraints
is_worker_available_for_slot_NoConstraints(worker, slot_def) ==
    is_worker_qualified_for_slot(worker, slot_def)

\* Variant that skips the qualification check
is_worker_available_for_slot_NoQualification(worker, slot_def) ==
    ~ \E c \in worker.constraints :
          /\ slot_def.slot_start_datetime < c.end_datetime
          /\ slot_def.slot_end_datetime > c.start_datetime

is_worker_available_for_slot(worker, slot_def) ==
    IF ~is_worker_qualified_for_slot(worker, slot_def) THEN FALSE
    ELSE ~ \E c \in worker.constraints :
              /\ slot_def.slot_start_datetime < c.end_datetime
              /\ slot_def.slot_end_datetime > c.start_datetime

\* Variant that takes the farthest matching day instead of the nearest
get_recent_role_penalty_Farthest(worker_id, role_id, slot_start, recent_assignments) ==
    LET slot_date == DateOf(slot_start)
        hits == { days_back \in 1..3 :
                    << worker_id, slot_date - days_back, role_id >> \in recent_assignments }
    IN  IF hits = {} THEN 10
        ELSE 25 - 5 * (CHOOSE d \in hits : \A e \in hits : d >= e)

\* Rotation penalty in tenths (10 = no penalty)
get_recent_role_penalty(worker_id, role_id, slot_start, recent_assignments) ==
    LET slot_date == DateOf(slot_start)
        hits == { days_back \in 1..3 :
                    << worker_id, slot_date - days_back, role_id >> \in recent_assignments }
    IN  IF hits = {} THEN 10
        ELSE LET days_back == CHOOSE d \in hits : \A e \in hits : d <= e
             IN  25 - 5 * days_back

\* Variant that ignores the individual ratings
get_worker_individual_difficulty_BaseOnly(worker_id, job_role_id, a) ==
    IF \E r \in Range(db_roles) : r.id = job_role_id
    THEN 10 * (CHOOSE r \in Range(db_roles) : r.id = job_role_id).difficulty_multiplier
    ELSE 1000

\* Variant with the two weights exchanged
get_worker_individual_difficulty_Swapped(worker_id, job_role_id, a) ==
    LET base_difficulty ==
            IF \E r \in Range(db_roles) : r.id = job_role_id
            THEN (CHOOSE r \in Range(db_roles) : r.id = job_role_id).difficulty_multiplier
            ELSE 100
        rated == { x \in db_ratings : x.worker_id = worker_id /\ x.job_role_id = job_role_id }
    IN  IF rated /= {}
        THEN (10 - a) * base_difficulty + a * 10 * (CHOOSE x \in rated : TRUE).difficulty_rating
        ELSE 10 * base_difficulty

\* Hybrid difficulty in thousandths (base in hundredths, rating and a in tenths)
get_worker_individual_difficulty(worker_id, job_role_id, a) ==
    LET base_difficulty ==
            IF \E r \in Range(db_roles) : r.id = job_role_id
            THEN (CHOOSE r \in Range(db_roles) : r.id = job_role_id).difficulty_multiplier
            ELSE 100
        rated == { x \in db_ratings : x.worker_id = worker_id /\ x.job_role_id = job_role_id }
    IN  IF rated /= {}
        THEN a * base_difficulty + (10 - a) * 10 * (CHOOSE x \in rated : TRUE).difficulty_rating
        ELSE 10 * base_difficulty

\* The slot row a pending assignment refers to, or None
slot_definitions_map(shift_definition_id) ==
    IF \E sd \in db_slots : sd.id = Some(shift_definition_id)
    THEN Some(CHOOSE sd \in db_slots : sd.id = Some(shift_definition_id))
    ELSE None

get_start_time(assign_obj) ==
    LET sd == slot_definitions_map(assign_obj.shift_definition_id)
    IN  IF sd /= None THEN Val(sd).slot_start_datetime ELSE DatetimeMax

\* list.sort(key=get_start_time): stable, ascending by start time only.
\* An element moves behind the elements with a smaller key and behind the
\* earlier elements with the same key.
SortedByStartTime(s) ==
    LET key == [ i \in 1..Len(s) |-> get_start_time(s[i]) ]
        pos == [ i \in 1..Len(s) |->
                   Cardinality({ j \in 1..Len(s) :
                                   key[j] < key[i] \/ (key[j] = key[i] /\ j <= i) }) ]
    IN  [ k \in 1..Len(s) |-> s[CHOOSE i \in 1..Len(s) : pos[i] = k] ]

\* Variant of the overlap test that is never true
SlotsOverlap_Never(a, b) == FALSE

\* max(start, start) < min(end, end)
SlotsOverlap(a, b) ==
    Max2(a.slot_start_datetime, b.slot_start_datetime)
        < Min2(a.slot_end_datetime, b.slot_end_datetime)

\* Variant of the max-hours test that lets everything through
WithinMaxHours_NoCap(worker, real_duration_minutes) == TRUE

\* "if worker.max_hours_per_week: if assigned + duration > max: continue"
WithinMaxHours(worker, real_duration_minutes) ==
    IF Truthy(worker.max_hours_per_week)
    THEN ~( worker_assigned_hours_in_period[worker.id] + real_duration_minutes
              > H(Val(worker.max_hours_per_week)) )
    ELSE TRUE

\* The three hard checks of the worker loop
IsEligible(worker, slot_def) ==
    /\ is_worker_available_for_slot(worker, slot_def)
    /\ ~ \E other \in worker_shift_assignments_in_run[worker.id] : SlotsOverlap(slot_def, other)
    /\ WithinMaxHours(worker, duration_total_minutes(slot_def))

\* Positions (in the worker list) of the eligible workers, in list order
EligibleIndices(slot_def) ==
    { i \in 1..Len(workers) : IsEligible(workers[i], slot_def) }

\* effective_weighted_hours: weighted hours times the rotation penalty
EffectiveWeightedHours(worker, slot_def) ==
    worker_weighted_hours[worker.id]
      * get_recent_role_penalty(worker.id, slot_def.job_role_id,
                                slot_def.slot_start_datetime, recent_role_assignments)

\* The eligible list with its scores: position in the worker list |-> score
EligibleWorkers(slot_def) ==
    [ i \in EligibleIndices(slot_def) |-> EffectiveWeightedHours(workers[i], slot_def) ]

\* Variant that sorts by the random draw before the score
FirstAfterSort_DrawFirst(eligible_workers, draws) ==
    LET E == DOMAIN eligible_workers
    IN  CHOOSE i \in E : \A j \in E :
            \/ draws[i] < draws[j]
            \/ /\ draws[i] = draws[j]
               /\ \/ eligible_workers[i] < eligible_workers[j]
                  \/ eligible_workers[i] = eligible_workers[j] /\ i <= j

\* eligible_workers.sort(key=(score, random.random())): the first element of
\* the sorted list; draws[i] is the draw made for worker position i.  The
\* sort is stable, so equal keys keep the order of the worker list.
FirstAfterSort(eligible_workers, draws) ==
    LET E == DOMAIN eligible_workers
    IN  CHOOSE i \in E : \A j \in E :
            \/ eligible_workers[i] < eligible_workers[j]
            \/ /\ eligible_workers[i] = eligible_workers[j]
               /\ \/ draws[i] < draws[j]
                  \/ draws[i] = draws[j] /\ i <= j

\* Variant that never takes the empty-worker-list exit
NoWorkers_Never(ws) == FALSE

\* "if not workers"
NoWorkers(ws) == Len(ws) = 0

\* Variant of the returned flag under a best-effort contract
SuccessFlag_BestEffort(unassigned) == TRUE

\* The flag returned after a successful commit
SuccessFlag(unassigned) == ~(unassigned > 0)

EngineStart ==
    /\ pc = "engine_start"
    /\ IF NoWorkers(workers)
       THEN /\ algo_messages' = Append(algo_messages, << "error", "no_workers" >>)
            /\ result' = Some(FALSE)
            /\ pc' = "engine_returned"
            /\ UNCHANGED << all_pending_assignments, worker_assigned_hours_in_period,
                            worker_weighted_hours, worker_shift_assignments_in_run >>
       ELSE IF Len(all_pending_assignments) = 0
       THEN /\ algo_messages' = Append(algo_messages, << "info", "no_pending" >>)
            /\ result' = Some(TRUE)
            /\ pc' = "engine_returned"
            /\ UNCHANGED << all_pending_assignments, worker_assigned_hours_in_period,
                            worker_weighted_hours, worker_shift_assignments_in_run >>
       ELSE /\ all_pending_assignments' = SortedByStartTime(all_pending_assignments)
            /\ worker_assigned_hours_in_period' =
                  [ w \in { workers[i].id : i \in 1..Len(workers) } |-> 0 ]
            /\ worker_weighted_hours' =
                  [ w \in { workers[i].id : i \in 1..Len(workers) } |-> 0 ]
            /\ worker_shift_assignments_in_run' =
                  [ w \in { workers[i].id : i \in 1..Len(workers) } |-> {} ]
            /\ pc' = "engine_loop"
            /\ UNCHANGED << algo_messages, result >>
    /\ UNCHANGED << dbVars, logVars, db_at_start, auxVars, draw_log, rng, random_seed, genVars, flashes, workers, idx,
                    recent_role_assignments, unassigned_count, assigned_count >>

\* One iteration of the loop over the pending assignments; first is the
\* position (in the worker list) of the worker the sort puts first.  The
\* draws of the sort key are the caller's.
AssignStep(first) ==
    /\ pc = "engine_loop"
    /\ idx < Len(all_pending_assignments)
    /\ idx' = idx + 1
    /\ LET assignment_obj == all_pending_assignments[idx + 1]
           sd == slot_definitions_map(assignment_obj.shift_definition_id)
       IN  IF sd = None
           THEN /\ algo_messages' = Append(algo_messages, << "warning", "definition_missing" >>)
                /\ unassigned_count' = unassigned_count + 1
                /\ UNCHANGED << pc, all_pending_assignments, worker_assigned_hours_in_period,
                                worker_weighted_hours, worker_shift_assignments_in_run,
                                recent_role_assignments, assigned_count >>
           ELSE IF job_role(Val(sd)) = None
           THEN \* slot_def.job_role.name raises AttributeError
                /\ pc' = "engine_raised"
                /\ UNCHANGED << all_pending_assignments, worker_assigned_hours_in_period,
                                worker_weighted_hours, worker_shift_assignments_in_run,
                                recent_role_assignments, unassigned_count, assigned_count,
                                algo_messages >>
           ELSE LET slot_def == Val(sd)
                    slot_date == DateOf(slot_def.slot_start_datetime)
                    role_id == slot_def.job_role_id
                    real_duration == duration_total_minutes(slot_def)
                IN  IF EligibleIndices(slot_def) /= {}
                    THEN LET worker == workers[first]
                         IN  /\ all_pending_assignments' =
                                   [ all_pending_assignments EXCEPT
                                       ![idx + 1].worker_id = Some(worker.id) ]
                             /\ worker_assigned_hours_in_period' =
                                   [ worker_assigned_hours_in_period EXCEPT
                                       ![worker.id] = @ + real_duration ]
                             /\ worker_weighted_hours' =
                                   [ worker_weighted_hours EXCEPT
                                       ![worker.id] = @ + real_duration *
                                           get_worker_individual_difficulty(worker.id, role_id, alpha) ]
                             /\ worker_shift_assignments_in_run' =
                                   [ worker_shift_assignments_in_run EXCEPT
                                       ![worker.id] = @ \cup { slot_def } ]
                             /\ recent_role_assignments' =
                                   recent_role_assignments \cup { << worker.id, slot_date, role_id >> }
                             /\ assigned_count' = assigned_count + 1
                             /\ UNCHANGED << pc, unassigned_count, algo_messages >>
                    ELSE /\ unassigned_count' = unassigned_count + 1
                         /\ algo_messages' = Append(algo_messages, << "warning", "could_not_assign" >>)
                         /\ UNCHANGED << pc, all_pending_assignments,
                                         worker_assigned_hours_in_period, worker_weighted_hours,
                                         worker_shift_assignments_in_run,
                                         recent_role_assignments, assigned_count >>
    /\ UNCHANGED << dbVars, logVars, db_at_start, auxVars, random_seed, genVars, flashes, workers, result >>

\* The rows after db.session.commit(): an UPDATE for every pending object
\* whose worker_id the loop has set; a row that is gone is not written back
CommittedAssignments ==
    { IF \E i \in 1..Len(all_pending_assignments) :
            /\ all_pending_assignments[i].id = a.id
            /\ all_pending_assignments[i].worker_id /= None
      THEN [ a EXCEPT !.worker_id =
               (CHOOSE p \in Range(all_pending_assignments) : p.id = a.id).worker_id ]
      ELSE a : a \in db_assignments }

\* db.session.commit() at the end of the loop, and the return
EngineCommit ==
    /\ pc = "engine_loop"
    /\ idx = Len(all_pending_assignments)
    /\ \/ \* the commit succeeds
          /\ db_assignments' = CommittedAssignments
          /\ algo_messages' =
                IF unassigned_count > 0
                THEN Append(algo_messages, << "info", "remain_unassigned" >>)
                ELSE Append(algo_messages, << "success", "all_assigned" >>)
          /\ result' = Some(SuccessFlag(unassigned_count))
          /\ pc' = "engine_returned"
       \/ \* the commit raises: rollback
          /\ UNCHANGED db_assignments
          /\ algo_messages' = Append(algo_messages, << "error", "commit_failed" >>)
          /\ result' = Some(FALSE)
          /\ pc' = "engine_commit_failed"
    /\ UNCHANGED << period, db_roles, db_workers, db_ratings, db_slots, alpha,
                    logVars, db_at_start, auxVars, draw_log, rng, random_seed, genVars, flashes, workers, all_pending_assignments,
                    idx, worker_assigned_hours_in_period, worker_weighted_hours,
                    worker_shift_assignments_in_run, recent_role_assignments,
                    unassigned_count, assigned_count >>

\* One iteration of the engine's loop with the sort key drawn from the
\* generator: one draw per eligible worker, in the order of the eligible list.
AssignStepSeeded ==
    /\ pc = "engine_loop"
    /\ idx < Len(all_pending_assignments)
    /\ LET sd == slot_definitions_map(all_pending_assignments[idx + 1].shift_definition_id)
           E == IF sd = None \/ job_role(Val(sd)) = None THEN {}
                ELSE EligibleIndices(Val(sd))
           k == Cardinality(E)
           draws == [ i \in 1..Len(workers) |->
                        IF i \in E
                        THEN RngAfter(rng, Cardinality({ j \in E : j <= i }))
                        ELSE 0 ]
       IN  /\ AssignStep(IF E = {} THEN 0
                         ELSE FirstAfterSort(EligibleWorkers(Val(sd)), draws))
           /\ rng' = RngAfter(rng, k)
           /\ draw_log' = draw_log \o DrawsFrom(rng, k)

\* The call site unpacks two values from the engine's three: the request
\* raises once the engine is back (or the engine's own exception propagates).
EngineCallReturn ==
    /\ pc \in { "engine_returned", "engine_commit_failed", "engine_raised" }
    /\ pc' = "request_raised"
    /\ UNCHANGED << dbVars, logVars, db_at_start, auxVars, rng, random_seed, draw_log, genVars, flashes, engVars >>

(* ------------------------------------------------------------------ *)
(* SpecGen: slot generation of one stored role over one period        *)
(* ------------------------------------------------------------------ *)
ClockGrain == 360
DurGrain == 240
MaxDurSteps == 8
PeriodGrain == 480
MaxPeriodSteps == 7
MaxNeeded == 2

GenClocks == { c \in 0..(DayLen - 1) : c % ClockGrain = 0 }
GenDurations == { k * DurGrain : k \in 1..MaxDurSteps }
GenPeriods == { [start |-> s, end |-> s + k * PeriodGrain] :
                  s \in GenClocks, k \in 1..MaxPeriodSteps }

\* Every role the role form stores, over the model's clocks and durations
StoredGenRoles ==
    { JobRole(1, n, d, hr, ws, we, ov, 100) :
        << n, d, hr, ws, we, ov >> \in
          { x \in (1..MaxNeeded) \X GenDurations \X BOOLEAN \X GenClocks \X GenClocks \X BOOLEAN :
              /\ role_submission_accepted(x[1], x[2], x[3], x[4], x[5], x[6])
              /\ (~x[3] => x[4] = 0 /\ x[5] = 0 /\ ~x[6]) } }

\* Request and engine locals before the handler has set them
IdleRequest ==
    /\ rng = 0
    /\ random_seed = None
    /\ draw_log = << >>
    /\ run_no = 0
    /\ prev_run = None
    /\ db_at_start = [ slots |-> {}, assignments |-> {} ]
    /\ call = None
    /\ ratings_import = None
    /\ other_request = None
    /\ flashes = << >>

IdleGenerator ==
    /\ job_roles_for_period = << >>
    /\ role_idx = 1
    /\ current_dt_for_role = 0
    /\ iter_count = 0
    /\ consecutive_invalid_slots = 0
    /\ generated_slot_objects = << >>

IdleEngine ==
    /\ workers = << >>
    /\ all_pending_assignments = << >>
    /\ idx = 0
    /\ worker_assigned_hours_in_period = << >>
    /\ worker_weighted_hours = << >>
    /\ worker_shift_assignments_in_run = << >>
    /\ recent_role_assignments = {}
    /\ unassigned_count = 0
    /\ assigned_count = 0
    /\ algo_messages = << >>
    /\ result = None

InitGen ==
    /\ pc = "role_start"
    /\ period \in GenPeriods
    /\ db_roles \in { << r >> : r \in StoredGenRoles }
    /\ job_roles_for_period = db_roles
    /\ db_workers = << >>
    /\ db_ratings = {}
    /\ db_slots = {}
    /\ db_assignments = {}
    /\ alpha = 5
    /\ IdleRequest
    /\ IdleEngine
    /\ role_idx = 1
    /\ current_dt_for_role = 0
    /\ iter_count = 0
    /\ consecutive_invalid_slots = 0
    /\ generated_slot_objects = << >>

NextGen == RoleStart \/ GenLoopIter \/ RoleEnd

SpecGen == InitGen /\ [][NextGen]_vars

\* The handler runs to its end once it is called: the loop is sequential
\* code of one request, so every enabled step is eventually taken
SpecGenLive == SpecGen /\ WF_vars(NextGen)

(* ------------------------------------------------------------------ *)
(* SpecAssign: one call of assign_shifts_fairly on stored slots       *)
(* ------------------------------------------------------------------ *)
MaxWorkers == 2
MaxPending == 3
RandRange == 3

\* Two roles of 8 hours without work window; base difficulties 1.0 and 2.0
AssignRoles ==
    << JobRole(1, 2, H(8), FALSE, 0, 0, FALSE, 100),
       JobRole(2, 1, H(8), FALSE, 0, 0, FALSE, 200) >>

SlotRow(id, role_id, slot_start, slot_end, i) ==
    [ id |-> Some(id),
      slot_start_datetime |-> slot_start,
      slot_end_datetime |-> slot_end,
      instance_number |-> i,
      job_role_id |-> role_id ]

\* Stored slots: overlapping, touching and same-start intervals
AssignSlots ==
    { SlotRow(1, 1, H(8), H(16), 1),
      SlotRow(2, 2, H(12), H(20), 1),
      SlotRow(3, 1, H(16), H(24), 1),
      SlotRow(4, 1, H(8), H(16), 2) }

Unavailable(cs, ce) == [ start_datetime |-> cs, end_datetime |-> ce ]

\* Worker rows as the worker and constraint forms store them
WorkerProfiles ==
    { [ qualified_roles |-> {1, 2}, constraints |-> {}, max_hours_per_week |-> None ],
      [ qualified_roles |-> {1},    constraints |-> {}, max_hours_per_week |-> None ],
      [ qualified_roles |-> {1, 2}, constraints |-> { Unavailable(H(16), H(24)) },
        max_hours_per_week |-> None ],
      [ qualified_roles |-> {1, 2}, constraints |-> {}, max_hours_per_week |-> Some(0) ],
      [ qualified_roles |-> {1, 2}, constraints |-> {}, max_hours_per_week |-> Some(8) ] }

Worker(id, profile) ==
    [ id |-> id,
      qualified_roles |-> profile.qualified_roles,
      constraints |-> profile.constraints,
      max_hours_per_week |-> profile.max_hours_per_week ]

WorkerLists ==
    UNION { { [ i \in 1..n |-> Worker(i, f[i]) ] : f \in [ 1..n -> WorkerProfiles ] } :
            n \in 0..MaxWorkers }

\* Placeholder lists: distinct stored slots, in any order (the caller shuffles)
PendingLists ==
    UNION { { [ i \in 1..n |-> ScheduledShift(f[i], f[i]) ] :
                f \in { g \in [ 1..n -> { Val(sd.id) : sd \in AssignSlots } ] :
                          \A i, j \in 1..n : i /= j => g[i] /= g[j] } } :
            n \in 0..MaxPending }

\* No individual rating at all, or worker 1 rating role 1 at 3.0
RatingTables ==
    { {}, { [ worker_id |-> 1, job_role_id |-> 1, difficulty_rating |-> 30 ] } }

InitAssign ==
    /\ pc = "engine_start"
    /\ period = [ start |-> 0, end |-> 2 * DayLen ]
    /\ db_roles = AssignRoles
    /\ db_slots = AssignSlots
    /\ workers \in WorkerLists
    /\ db_workers = workers
    /\ all_pending_assignments \in PendingLists
    /\ db_assignments = Range(all_pending_assignments)
    /\ db_ratings \in RatingTables
    /\ alpha = 5
    /\ IdleRequest
    /\ IdleGenerator
    /\ idx = 0
    /\ worker_assigned_hours_in_period = << >>
    /\ worker_weighted_hours = << >>
    /\ worker_shift_assignments_in_run = << >>
    /\ recent_role_assignments = {}
    /\ unassigned_count = 0
    /\ assigned_count = 0
    /\ algo_messages = << >>
    /\ result = None

\* The workers some sequence of draws puts first for the slot being processed
PossibleFirst ==
    LET sd == slot_definitions_map(all_pending_assignments[idx + 1].shift_definition_id)
    IN  IF sd = None \/ job_role(Val(sd)) = None THEN { 0 }
        ELSE LET eligible_workers == EligibleWorkers(Val(sd))
             IN  IF DOMAIN eligible_workers = {} THEN { 0 }
                 ELSE { FirstAfterSort(eligible_workers, draws) :
                          draws \in [ 1..Len(workers) -> 0..(RandRange - 1) ] }

\* The engine is called with the generator in an unknown state: every
\* sequence of draws is possible
AssignStepAnyDraws ==
    /\ pc = "engine_loop"
    /\ idx < Len(all_pending_assignments)
    /\ \E first \in PossibleFirst : AssignStep(first)
    /\ UNCHANGED << rng, draw_log >>

NextAssign == EngineStart \/ AssignStepAnyDraws \/ EngineCommit

SpecAssign == InitAssign /\ [][NextAssign]_vars

(* ------------------------------------------------------------------ *)
(* Properties of slot generation                                      *)
(* ------------------------------------------------------------------ *)
GeneratedSlots == Range(generated_slot_objects)

RoleOfSlot(s) == CHOOSE r \in Range(job_roles_for_period) : r.id = s.job_role_id

\* The window invariant for one slot of a role with a work window, the
\* window being same-day when start < end and overnight when start > end
SlotInsideWindow(s, role) ==
    LET ws == Val(role.work_start_time)
        we == Val(role.work_end_time)
        t == Clock(s.slot_start_datetime)
        day == s.slot_start_datetime - t
    IN  IF ws < we
        THEN /\ ws <= t /\ t < we
             /\ s.slot_end_datetime <= day + we
        ELSE IF ws > we
        THEN /\ t >= ws \/ t < we
             /\ t >= ws => s.slot_end_datetime <= day + DayLen + we
             /\ t < we => s.slot_end_datetime <= day + we
        ELSE TRUE

\* C5 (window invariant): every generated slot of a role with a work window
\* starts at a clock time inside the window and ends no later than the end of
\* that window occurrence (same-day window: start <= t < end; overnight window,
\* start > end: t >= start or t < end, ending by next-day end for the late half
\* and by same-day end for the early half), and no slot is longer than the
\* role's shift duration.
C5_WindowInvariant ==
    \A s \in GeneratedSlots :
        LET role == RoleOfSlot(s)
        IN  /\ s.slot_end_datetime - s.slot_start_datetime <= get_duration_timedelta(role)
            /\ has_time_restrictions(role) => SlotInsideWindow(s, role)

\* C10 (slot bounds): every generated slot satisfies
\* period.start <= slot.start < slot.end <= period.end, and a slot whose
\* duration-based, window-clipped end would pass the period end ends exactly
\* at period.end; no zero-width or negative-width slot is emitted.
C10_SlotBounds ==
    \A s \in GeneratedSlots :
        /\ period.start <= s.slot_start_datetime
        /\ s.slot_start_datetime < s.slot_end_datetime
        /\ s.slot_end_datetime <= period.end
        /\ WindowClippedEnd(s.slot_start_datetime, RoleOfSlot(s)) > period.end
              => s.slot_end_datetime = period.end

\* C10 witness: generation finished and some slot was clipped at the period end
C10_Witness ==
    /\ pc = "gen_done"
    /\ \E s \in GeneratedSlots :
          /\ WindowClippedEnd(s.slot_start_datetime, RoleOfSlot(s)) > period.end
          /\ s.slot_end_datetime = period.end

(* ------------------------------------------------------------------ *)
(* SpecRun: consecutive generate-and-assign requests on one database  *)
(* ------------------------------------------------------------------ *)
MaxRuns == 2

\* The values of the form field random_seed: empty, not a number, a number
FormSeeds ==
    { [ raw |-> "empty", n |-> None ], [ raw |-> "text", n |-> None ] }
    \cup { [ raw |-> "int", n |-> Some(k) ] : k \in { 0, 1, 2, RngMod + 1, SeedMax + 1 } }

\* Monday 08:00 to Wednesday 08:00, one role of 8 hours, one qualified worker
ScenarioDatabase ==
    [ period |-> [ start |-> H(8), end |-> 2 * DayLen + H(8) ],
      roles |-> << JobRole(1, 1, H(8), FALSE, 0, 0, FALSE, 100) >>,
      workers |-> << Worker(1, [ qualified_roles |-> {1}, constraints |-> {},
                                 max_hours_per_week |-> None ]) >>,
      ratings |-> {} ]

\* One day, two roles (one with a work window), three workers
TeamDatabase ==
    [ period |-> [ start |-> 0, end |-> DayLen ],
      roles |-> << JobRole(1, 2, H(12), FALSE, 0, 0, FALSE, 100),
                   JobRole(2, 1, H(8), TRUE, H(8), H(16), FALSE, 200) >>,
      workers |-> << Worker(1, [ qualified_roles |-> {1, 2},
                                 constraints |-> { Unavailable(H(12), H(24)) },
                                 max_hours_per_week |-> None ]),
                     Worker(2, [ qualified_roles |-> {1, 2}, constraints |-> {},
                                 max_hours_per_week |-> Some(12) ]),
                     Worker(3, [ qualified_roles |-> {1}, constraints |-> {},
                                 max_hours_per_week |-> None ]) >>,
      ratings |-> { [ worker_id |-> 2, job_role_id |-> 1, difficulty_rating |-> 30 ] } ]

\* Databases that end the request early: no role, no worker, no slot
EarlyExitDatabases ==
    { [ ScenarioDatabase EXCEPT !.roles = << >> ],
      [ ScenarioDatabase EXCEPT !.workers = << >> ],
      [ ScenarioDatabase EXCEPT
          !.period = [ start |-> 0, end |-> H(6) ],
          !.roles = << JobRole(1, 1, H(8), TRUE, H(8), H(16), FALSE, 100) >> ] }

RunDatabases == { ScenarioDatabase, TeamDatabase } \cup EarlyExitDatabases

InitRun ==
    /\ pc = "idle"
    /\ \E d \in RunDatabases :
          /\ period = d.period
          /\ db_roles = d.roles
          /\ db_workers = d.workers
          /\ db_ratings = d.ratings
    /\ db_slots = {}
    /\ db_assignments = {}
    /\ alpha = 5
    /\ rng \in 0..(RngMod - 1)
    /\ random_seed = None
    /\ draw_log = << >>
    /\ run_no = 0
    /\ prev_run = None
    /\ db_at_start = [ slots |-> {}, assignments |-> {} ]
    /\ call = None
    /\ ratings_import = None
    /\ other_request = None
    /\ flashes = << >>
    /\ IdleGenerator
    /\ IdleEngine

SubmitRequest ==
    /\ run_no < MaxRuns
    /\ \E form \in FormSeeds : RequestStart(form)

NextRun ==
    \/ SubmitRequest
    \/ RoleStart
    \/ GenLoopIter
    \/ RoleEnd
    \/ CommitSlotsAndPrepare
    \/ EngineStart
    \/ AssignStepSeeded
    \/ EngineCommit
    \/ EngineCallReturn

SpecRun == InitRun /\ [][NextRun]_vars

(* ------------------------------------------------------------------ *)
(* SpecConc: two generation requests for the same period, handled by  *)
(* two worker processes and interleaved between their commits         *)
(* ------------------------------------------------------------------ *)
\* The locals of a request that has not started
IdleLocals ==
    [ pc |-> "idle", rng |-> 0, random_seed |-> None, draw_log |-> << >>, flashes |-> << >>,
      job_roles_for_period |-> << >>, role_idx |-> 1, current_dt_for_role |-> 0,
      iter_count |-> 0, consecutive_invalid_slots |-> 0, generated_slot_objects |-> << >>,
      workers |-> << >>, all_pending_assignments |-> << >>, idx |-> 0,
      worker_assigned_hours_in_period |-> << >>, worker_weighted_hours |-> << >>,
      worker_shift_assignments_in_run |-> << >>, recent_role_assignments |-> {},
      unassigned_count |-> 0, assigned_count |-> 0, algo_messages |-> << >>, result |-> None ]

\* The locals of the request the model is following
CurrentLocals ==
    [ pc |-> pc, rng |-> rng, random_seed |-> random_seed, draw_log |-> draw_log,
      flashes |-> flashes,
      job_roles_for_period |-> job_roles_for_period, role_idx |-> role_idx,
      current_dt_for_role |-> current_dt_for_role, iter_count |-> iter_count,
      consecutive_invalid_slots |-> consecutive_invalid_slots,
      generated_slot_objects |-> generated_slot_objects,
      workers |-> workers, all_pending_assignments |-> all_pending_assignments, idx |-> idx,
      worker_assigned_hours_in_period |-> worker_assigned_hours_in_period,
      worker_weighted_hours |-> worker_weighted_hours,
      worker_shift_assignments_in_run |-> worker_shift_assignments_in_run,
      recent_role_assignments |-> recent_role_assignments,
      unassigned_count |-> unassigned_count, assigned_count |-> assigned_count,
      algo_messages |-> algo_messages, result |-> result ]

\* The places between two commits of the handler: before the request, after
\* the old data is cleared, after the slots and placeholders are stored, and
\* after the request
BetweenCommits == pc \in { "idle", "role_start", "engine_start" } \/ RunOver

\* The other process runs: its request goes on from where it stopped
SwitchRequest ==
    /\ other_request /= None
    /\ BetweenCommits
    /\ other_request' = Some(CurrentLocals)
    /\ LET o == Val(other_request)
       IN  /\ pc' = o.pc
           /\ rng' = o.rng
           /\ random_seed' = o.random_seed
           /\ draw_log' = o.draw_log
           /\ flashes' = o.flashes
           /\ job_roles_for_period' = o.job_roles_for_period
           /\ role_idx' = o.role_idx
           /\ current_dt_for_role' = o.current_dt_for_role
           /\ iter_count' = o.iter_count
           /\ consecutive_invalid_slots' = o.consecutive_invalid_slots
           /\ generated_slot_objects' = o.generated_slot_objects
           /\ workers' = o.workers
           /\ all_pending_assignments' = o.all_pending_assignments
           /\ idx' = o.idx
           /\ worker_assigned_hours_in_period' = o.worker_assigned_hours_in_period
           /\ worker_weighted_hours' = o.worker_weighted_hours
           /\ worker_shift_assignments_in_run' = o.worker_shift_assignments_in_run
           /\ recent_role_assignments' = o.recent_role_assignments
           /\ unassigned_count' = o.unassigned_count
           /\ assigned_count' = o.assigned_count
           /\ algo_messages' = o.algo_messages
           /\ result' = o.result
    /\ UNCHANGED << dbVars, logVars, db_at_start, call, ratings_import >>

MaxConcSeed == 2

\* 00:00 to 16:00 of one day, one role of 8 hours, one qualified worker
ConcDatabase ==
    [ ScenarioDatabase EXCEPT !.period = [ start |-> 0, end |-> H(16) ] ]

InitConc ==
    /\ pc = "idle"
    /\ period = ConcDatabase.period
    /\ db_roles = ConcDatabase.roles
    /\ db_workers = ConcDatabase.workers
    /\ db_ratings = ConcDatabase.ratings
    /\ db_slots = {}
    /\ db_assignments = {}
    /\ alpha = 5
    /\ rng = 0
    /\ random_seed = None
    /\ draw_log = << >>
    /\ run_no = 0
    /\ prev_run = None
    /\ db_at_start = [ slots |-> {}, assignments |-> {} ]
    /\ call = None
    /\ ratings_import = None
    /\ other_request = Some(IdleLocals)
    /\ flashes = << >>
    /\ IdleGenerator
    /\ IdleEngine

\* Each of the two requests is submitted once
SubmitConcurrent ==
    /\ pc = "idle"
    /\ \E k \in 1..MaxConcSeed : RequestStart([ raw |-> "int", n |-> Some(k) ])

NextConc ==
    \/ SubmitConcurrent
    \/ SwitchRequest
    \/ RoleStart
    \/ GenLoopIter
    \/ RoleEnd
    \/ CommitSlotsAndPrepare
    \/ EngineStart
    \/ AssignStepSeeded
    \/ EngineCommit
    \/ EngineCallReturn

SpecConc == InitConc /\ [][NextConc]_vars

(* ------------------------------------------------------------------ *)
(* SpecCalls: calls of the difficulty and rotation-penalty helpers    *)
(* ------------------------------------------------------------------ *)
HistoryDays == 5
CallWorkers == 2

\* Stored base difficulties (hundredths) and individual ratings (tenths, 1..5)
BaseDifficulties == { 50, 100, 333, 500 }
RatingValues == { 10, 30, 50 }

\* One stored role (id 1); role id 2 is not in the database
CallRoles == { << JobRole(1, 1, H(8), FALSE, 0, 0, FALSE, d) >> : d \in BaseDifficulties }

\* At most one rating per (worker, role); worker 1 may have rated both ids
CallRatings ==
    { a \cup b :
        a \in { {} } \cup { { [ worker_id |-> 1, job_role_id |-> 1, difficulty_rating |-> v ] } :
                              v \in RatingValues },
        b \in { {}, { [ worker_id |-> 1, job_role_id |-> 2, difficulty_rating |-> 30 ] } } }

\* Histories of the run: role 1 given to worker 1 on any days of the window,
\* possibly with another role or another worker the day before the slot
CallHistories ==
    { a \cup b :
        a \in SUBSET { << 1, d, 1 >> : d \in 0..HistoryDays },
        b \in SUBSET { << 1, HistoryDays - 1, 2 >>, << 2, HistoryDays - 1, 1 >> } }

InitCalls ==
    /\ pc = "calls"
    /\ period = [ start |-> 0, end |-> (HistoryDays + 1) * DayLen ]
    /\ \/ /\ db_roles \in CallRoles
          /\ db_ratings \in CallRatings
          /\ recent_role_assignments = {}
       \/ /\ db_roles \in { r \in CallRoles : r[1].difficulty_multiplier = 100 }
          /\ db_ratings = {}
          /\ recent_role_assignments \in CallHistories
    /\ db_workers = << >>
    /\ db_slots = {}
    /\ db_assignments = {}
    /\ alpha = 5
    /\ IdleRequest
    /\ IdleGenerator
    /\ workers = << >>
    /\ all_pending_assignments = << >>
    /\ idx = 0
    /\ worker_assigned_hours_in_period = << >>
    /\ worker_weighted_hours = << >>
    /\ worker_shift_assignments_in_run = << >>
    /\ unassigned_count = 0
    /\ assigned_count = 0
    /\ algo_messages = << >>
    /\ result = None

\* A call get_worker_individual_difficulty(worker_id, job_role_id, alpha=a)
CallDifficulty ==
    /\ pc = "calls"
    /\ \E worker_id \in 1..CallWorkers, job_role_id \in 1..2, a \in 0..10 :
          call' = Some([ fn |-> "get_worker_individual_difficulty",
                         worker_id |-> worker_id, role_id |-> job_role_id, arg |-> a,
                         result |-> get_worker_individual_difficulty(worker_id, job_role_id, a) ])
    /\ UNCHANGED << dbVars, logVars, db_at_start, ratings_import, other_request, pc, rng, random_seed,
                    draw_log, genVars, flashes, engVars >>

\* A call get_recent_role_penalty(worker_id, role_id, slot_start, history) for
\* a slot of the last day of the window
CallPenalty ==
    /\ pc = "calls"
    /\ \E worker_id \in 1..CallWorkers, role_id \in 1..2, clock \in { 0, H(8), H(23) } :
          call' = Some([ fn |-> "get_recent_role_penalty",
                         worker_id |-> worker_id, role_id |-> role_id,
                         arg |-> HistoryDays * DayLen + clock,
                         result |-> get_recent_role_penalty(worker_id, role_id,
                                        HistoryDays * DayLen + clock, recent_role_assignments) ])
    /\ UNCHANGED << dbVars, logVars, db_at_start, ratings_import, other_request, pc, rng, random_seed,
                    draw_log, genVars, flashes, engVars >>

NextCalls == CallDifficulty \/ CallPenalty

SpecCalls == InitCalls /\ [][NextCalls]_vars

(* ------------------------------------------------------------------ *)
(* SpecFair: one engine call over slots of consecutive days           *)
(* ------------------------------------------------------------------ *)
FairDays == 3
FairWorkers == 2

\* One 08:00-16:00 slot of role 1 on each day, and a slot of role 2 on day 0
FairSlots ==
    { SlotRow(d + 1, 1, d * DayLen + H(8), d * DayLen + H(16), 1) : d \in 0..(FairDays - 1) }
        \cup { SlotRow(FairDays + 1, 2, H(8), H(16), 1) }

\* Workers for both roles, for role 1 only, and with a cap of 16 hours
FairProfiles ==
    { [ qualified_roles |-> {1, 2}, constraints |-> {}, max_hours_per_week |-> None ],
      [ qualified_roles |-> {1},    constraints |-> {}, max_hours_per_week |-> None ],
      [ qualified_roles |-> {1, 2}, constraints |-> {}, max_hours_per_week |-> Some(16) ] }

FairWorkerLists ==
    UNION { { [ i \in 1..n |-> Worker(i, f[i]) ] : f \in [ 1..n -> FairProfiles ] } :
            n \in 1..FairWorkers }

\* The placeholders of a non-empty set of the slots, in ascending or
\* descending id order
FairPendingLists ==
    UNION { { [ k \in 1..Cardinality(S) |->
                  LET id == CHOOSE i \in S : Cardinality({ j \in S : j <= i }) = k
                  IN  ScheduledShift(id, id) ],
              [ k \in 1..Cardinality(S) |->
                  LET id == CHOOSE i \in S : Cardinality({ j \in S : j >= i }) = k
                  IN  ScheduledShift(id, id) ] } :
            S \in (SUBSET { Val(sd.id) : sd \in FairSlots }) \ { {} } }

\* No rating, worker 1 rating role 1 at 3.0, or worker 2 rating it at 1.0
FairRatingTables ==
    { {}, { [ worker_id |-> 1, job_role_id |-> 1, difficulty_rating |-> 30 ] },
          { [ worker_id |-> 2, job_role_id |-> 1, difficulty_rating |-> 10 ] } }

InitFair ==
    /\ pc = "engine_start"
    /\ period = [ start |-> 0, end |-> FairDays * DayLen ]
    /\ db_roles = AssignRoles
    /\ db_slots = FairSlots
    /\ workers \in FairWorkerLists
    /\ db_workers = workers
    /\ all_pending_assignments \in FairPendingLists
    /\ db_assignments = Range(all_pending_assignments)
    /\ db_ratings \in FairRatingTables
    /\ alpha = 5
    /\ IdleRequest
    /\ IdleGenerator
    /\ idx = 0
    /\ worker_assigned_hours_in_period = << >>
    /\ worker_weighted_hours = << >>
    /\ worker_shift_assignments_in_run = << >>
    /\ recent_role_assignments = {}
    /\ unassigned_count = 0
    /\ assigned_count = 0
    /\ algo_messages = << >>
    /\ result = None

SpecFair == InitFair /\ [][NextAssign]_vars

(* ------------------------------------------------------------------ *)
(* SpecIntegrity: one engine call over damaged rows                   *)
(* ------------------------------------------------------------------ *)
\* The stored slots and a slot whose role (id 3) is not stored
IntegritySlots == AssignSlots \cup { SlotRow(5, 3, H(8), H(16), 1) }

\* Placeholders of slots 1 and 2, of the slot without role and of a slot id
\* (9) that has no row, in any order
IntegrityPendingLists ==
    UNION { { [ i \in 1..n |-> ScheduledShift(f[i], f[i]) ] :
                f \in { g \in [ 1..n -> { 1, 2, 5, 9 } ] :
                          \A i, j \in 1..n : i /= j => g[i] /= g[j] } } :
            n \in 1..MaxPending }

InitIntegrity ==
    /\ pc = "engine_start"
    /\ period = [ start |-> 0, end |-> 2 * DayLen ]
    /\ db_roles = AssignRoles
    /\ db_slots = IntegritySlots
    /\ workers \in { ws \in WorkerLists : Len(ws) >= 1 }
    /\ db_workers = workers
    /\ all_pending_assignments \in IntegrityPendingLists
    /\ db_assignments = Range(all_pending_assignments)
    /\ db_ratings = {}
    /\ alpha = 5
    /\ IdleRequest
    /\ IdleGenerator
    /\ idx = 0
    /\ worker_assigned_hours_in_period = << >>
    /\ worker_weighted_hours = << >>
    /\ worker_shift_assignments_in_run = << >>
    /\ recent_role_assignments = {}
    /\ unassigned_count = 0
    /\ assigned_count = 0
    /\ algo_messages = << >>
    /\ result = None

SpecIntegrity == InitIntegrity /\ [][NextAssign]_vars

(* ------------------------------------------------------------------ *)
(* SpecCap: slot generation around the iteration cap                  *)
(* ------------------------------------------------------------------ *)
CapSlack == 1

\* Periods of max_iter minutes, give or take CapSlack
CapPeriods == { [ start |-> 0, end |-> max_iter + d ] : d \in (0 - CapSlack)..CapSlack }

\* A role with one-minute shifts and a role with 24-hour shifts, in both
\* orders of the shuffled role list
CapRoleLists ==
    { << JobRole(1, 1, 1, FALSE, 0, 0, FALSE, 100), JobRole(2, 1, H(24), FALSE, 0, 0, FALSE, 100) >>,
      << JobRole(2, 1, H(24), FALSE, 0, 0, FALSE, 100), JobRole(1, 1, 1, FALSE, 0, 0, FALSE, 100) >> }

InitCap ==
    /\ pc = "role_start"
    /\ period \in CapPeriods
    /\ job_roles_for_period \in CapRoleLists
    /\ db_roles = job_roles_for_period
    /\ db_workers = << >>
    /\ db_ratings = {}
    /\ db_slots = {}
    /\ db_assignments = {}
    /\ alpha = 5
    /\ IdleRequest
    /\ IdleEngine
    /\ role_idx = 1
    /\ current_dt_for_role = 0
    /\ iter_count = 0
    /\ consecutive_invalid_slots = 0
    /\ generated_slot_objects = << >>

SpecCap == InitCap /\ [][NextGen]_vars

(* ------------------------------------------------------------------ *)
(* manage_job_roles_for_period (add role) and edit_job_role           *)
(* ------------------------------------------------------------------ *)
\* The checks on the duration fields of the role forms
duration_values_accepted(days, hours, minutes) ==
    /\ ~ (days * 24 * 60 + hours * 60 + minutes < 20)
    /\ ~ (days < 0 \/ hours < 0 \/ minutes < 0 \/ hours >= 24 \/ minutes >= 60)

\* The checks on the window fields: both clock times given, and for a
\* same-day window the end after the start (an overnight window whose end is
\* not before its start draws a warning only)
window_values_accepted(form) ==
    form.has_time_restrictions =>
        /\ form.work_start_time /= None
        /\ form.work_end_time /= None
        /\ ~ (~ form.is_overnight_shift /\ Val(form.work_end_time) <= Val(form.work_start_time))

\* The flash of a submission that passed the checks
RoleFormFlashes(form, done) ==
    IF form.has_time_restrictions /\ form.is_overnight_shift
          /\ Val(form.work_end_time) >= Val(form.work_start_time)
    THEN << << "warning", "overnight_end_not_before_start" >>, << "success", done >> >>
    ELSE << << "success", done >> >>

\* The fields both forms store
RoleFields(id, form, overnight, difficulty) ==
    [ name |-> form.role_name ] @@
    JobRole(id, form.number_needed, form.days * 24 * 60 + form.hours * 60 + form.minutes,
            form.has_time_restrictions,
            IF form.has_time_restrictions THEN Val(form.work_start_time) ELSE 0,
            IF form.has_time_restrictions THEN Val(form.work_end_time) ELSE 0,
            overnight, difficulty)

\* POST of the add-role form
AddRole(form) ==
    /\ pc = "idle" \/ RunOver
    /\ IF /\ form.role_name /= ""
          /\ form.number_needed >= 1
          /\ duration_values_accepted(form.days, form.hours, form.minutes)
          /\ ~ \E r \in Range(db_roles) : r.name = form.role_name
          /\ window_values_accepted(form)
       THEN /\ db_roles' = Append(db_roles,
                                  RoleFields(Len(db_roles) + 1, form, form.is_overnight_shift, 100))
            /\ flashes' = RoleFormFlashes(form, "role_added")
       ELSE /\ db_roles' = db_roles
            /\ flashes' = << << "danger", "role_rejected" >> >>
    /\ UNCHANGED << period, db_workers, db_ratings, db_slots, db_assignments, alpha, logVars,
                    db_at_start, auxVars, pc, rng, random_seed, draw_log, genVars, engVars >>

\* POST of the edit form of the stored role at position i
EditRole(i, form) ==
    /\ pc = "idle" \/ RunOver
    /\ i \in DOMAIN db_roles
    /\ IF /\ form.role_name /= ""
          /\ form.number_needed >= 1
          /\ duration_values_accepted(form.days, form.hours, form.minutes)
          /\ ~ \E j \in DOMAIN db_roles : j /= i /\ db_roles[j].name = form.role_name
          /\ window_values_accepted(form)
       THEN /\ db_roles' =
                  [ db_roles EXCEPT ![i] =
                      RoleFields(db_roles[i].id, form,
                                 IF form.has_time_restrictions THEN form.is_overnight_shift
                                 ELSE FALSE,
                                 db_roles[i].difficulty_multiplier) ]
            /\ flashes' = RoleFormFlashes(form, "role_updated")
       ELSE /\ db_roles' = db_roles
            /\ flashes' = << << "danger", "role_rejected" >> >>
    /\ UNCHANGED << period, db_workers, db_ratings, db_slots, db_assignments, alpha, logVars,
                    db_at_start, auxVars, pc, rng, random_seed, draw_log, genVars, engVars >>

(* ------------------------------------------------------------------ *)
(* SpecRoles: sequences of add-role and edit-role submissions         *)
(* ------------------------------------------------------------------ *)
MaxRoleNames == 2

RoleNames == { "" } \cup { <<"a", "b", "c", "d">>[k] : k \in 1..MaxRoleNames }

\* Headcount and duration fields: headcount 0, too short, hours out of
\* range, and one worker for 8 hours
FormSizes == { << 0, 0, 8, 0 >>, << 1, 0, 0, 19 >>, << 1, 1, 0 - 1, 0 >>, << 1, 0, 8, 0 >> }

FormClocks == { None, Some(H(8)), Some(H(22)) }

\* The window fields: left empty without the restriction box ticked, any
\* combination of the clock fields with it
FormWindows ==
    { [ has_time_restrictions |-> FALSE, work_start_time |-> None, work_end_time |-> None,
        is_overnight_shift |-> ov ] : ov \in BOOLEAN }
    \cup
    { [ has_time_restrictions |-> TRUE, work_start_time |-> ws, work_end_time |-> we,
        is_overnight_shift |-> ov ] : ws \in FormClocks, we \in FormClocks, ov \in BOOLEAN }

RoleForms ==
    { [ role_name |-> n, number_needed |-> d[1], days |-> d[2], hours |-> d[3],
        minutes |-> d[4] ] @@ w :
        n \in RoleNames, d \in FormSizes, w \in FormWindows }

InitRoles ==
    /\ pc = "idle"
    /\ period = [ start |-> 0, end |-> DayLen ]
    /\ db_roles = << >>
    /\ db_workers = << >>
    /\ db_ratings = {}
    /\ db_slots = {}
    /\ db_assignments = {}
    /\ alpha = 5
    /\ IdleRequest
    /\ IdleGenerator
    /\ IdleEngine

SubmitAddRole == \E form \in RoleForms : AddRole(form)

SubmitEditRole == \E i \in DOMAIN db_roles, form \in RoleForms : EditRole(i, form)

NextRoles == SubmitAddRole \/ SubmitEditRole

SpecRoles == InitRoles /\ [][NextRoles]_vars

(* ------------------------------------------------------------------ *)
(* SpecRerun: generation requests with edits of the role in between   *)
(* ------------------------------------------------------------------ *)
\* 00:00 to 06:00 of one day, one role of 8 hours without window, one worker
RerunDatabase ==
    [ ScenarioDatabase EXCEPT
        !.period = [ start |-> 0, end |-> H(6) ],
        !.roles = << [ name |-> "a" ] @@ JobRole(1, 1, H(8), FALSE, 0, 0, FALSE, 100) >> ]

\* Edits of the role's window that keep its name, headcount and duration
RerunForms ==
    { form \in RoleForms :
        /\ form.role_name = "a"
        /\ form.number_needed = 1
        /\ form.hours = 8
        /\ ~ form.is_overnight_shift }

InitRerun ==
    /\ pc = "idle"
    /\ period = RerunDatabase.period
    /\ db_roles = RerunDatabase.roles
    /\ db_workers = RerunDatabase.workers
    /\ db_ratings = RerunDatabase.ratings
    /\ db_slots = {}
    /\ db_assignments = {}
    /\ alpha = 5
    /\ rng \in 0..(RngMod - 1)
    /\ IdleRequest
    /\ IdleGenerator
    /\ IdleEngine

SubmitWindowEdit == \E form \in RerunForms : EditRole(1, form)

NextRerun == NextRun \/ SubmitWindowEdit

SpecRerun == InitRerun /\ [][NextRerun]_vars

(* ------------------------------------------------------------------ *)
(* edit_assignment_worker and swap_assignments (manual changes)       *)
(* ------------------------------------------------------------------ *)
StoredWorker(worker_id) ==
    IF \E k \in DOMAIN db_workers : db_workers[k].id = worker_id
    THEN Some(db_workers[CHOOSE k \in DOMAIN db_workers : db_workers[k].id = worker_id])
    ELSE None

StoredAssignment(assignment_id) ==
    IF \E a \in db_assignments : a.id = assignment_id
    THEN Some(CHOOSE a \in db_assignments : a.id = assignment_id)
    ELSE None

\* The rows of db_assignments with new worker ids for the given row ids
WithWorkers(changes) ==
    { IF a.id \in DOMAIN changes THEN [ a EXCEPT !.worker_id = changes[a.id] ] ELSE a :
        a \in db_assignments }

\* The other assignments of the worker in the active period that overlap the slot
conflicting_assignments(assignment, new_worker, shift_def) ==
    { other \in db_assignments :
        /\ other.worker_id = Some(new_worker.id)
        /\ other.id /= assignment.id
        /\ slot_definitions_map(other.shift_definition_id) /= None
        /\ LET other_slot == Val(slot_definitions_map(other.shift_definition_id))
           IN  Max2(shift_def.slot_start_datetime, other_slot.slot_start_datetime)
                 < Min2(shift_def.slot_end_datetime, other_slot.slot_end_datetime) }

\* Variant that keeps the old worker when a check fails
NewWorkerId_Checked(assignment, new_worker, qualified, conflict) ==
    IF qualified /\ ~ conflict THEN Some(new_worker.id) ELSE assignment.worker_id

\* assignment.worker_id = new_worker.id, whatever the checks said
NewWorkerId(assignment, new_worker, qualified, conflict) == Some(new_worker.id)

\* The submitted worker_id field: 'unassign', digits, or anything else
EditForms ==
    { [ kind |-> "unassign", n |-> 0 ], [ kind |-> "other", n |-> 0 ] }
    \cup { [ kind |-> "digits", n |-> k ] : k \in 1..(MaxWorkers + 1) }

\* POST of the worker selection of one assignment; active tells whether the
\* session has an active period
EditAssignmentWorker(assignment, form, active) ==
    /\ pc \in { "engine_returned", "manual_done" }
    /\ assignment \in db_assignments
    /\ pc' = "manual_done"
    /\ call' = Some([ fn |-> "edit_assignment_worker", assignment_id |-> assignment.id,
                      form |-> form ])
    /\ LET sd == slot_definitions_map(assignment.shift_definition_id)
           old == IF assignment.worker_id = None THEN "assigned" ELSE "reassigned"
       IN  IF sd = None
           THEN /\ flashes' = << << "danger", "definition_not_found" >> >>
                /\ UNCHANGED db_assignments
           ELSE IF form.kind = "unassign"
           THEN /\ db_assignments' = WithWorkers(assignment.id :> None)
                /\ flashes' = << << "info", "unassigned" >> >>
           ELSE IF form.kind = "digits"
           THEN IF StoredWorker(form.n) = None
                THEN /\ flashes' = << << "danger", "worker_not_found" >> >>
                     /\ UNCHANGED db_assignments
                ELSE LET new_worker == Val(StoredWorker(form.n))
                         qualified == is_worker_qualified_for_slot(new_worker, Val(sd))
                         conflict ==
                             active /\ conflicting_assignments(assignment, new_worker, Val(sd)) /= {}
                     IN  /\ db_assignments' =
                               WithWorkers(assignment.id :>
                                             NewWorkerId(assignment, new_worker, qualified, conflict))
                         /\ flashes' =
                               (IF qualified THEN << >> ELSE << << "warning", "not_qualified" >> >>)
                               \o (IF conflict THEN << << "warning", "time_conflict" >> >> ELSE << >>)
                               \o << << "success", old >> >>
           ELSE /\ flashes' = << << "danger", "invalid_worker_selection" >> >>
                /\ UNCHANGED db_assignments
    /\ UNCHANGED << period, db_roles, db_workers, db_ratings, db_slots, alpha, logVars,
                    db_at_start, ratings_import, other_request, rng, random_seed, draw_log,
                    genVars, engVars >>

\* POST of a swap; swap_with is the id in the form (a stored assignment or not)
SwapAssignments(assignment1, swap_with) ==
    /\ pc \in { "engine_returned", "manual_done" }
    /\ assignment1 \in db_assignments
    /\ pc' = "manual_done"
    /\ call' = Some([ fn |-> "swap_assignments", assignment_id |-> assignment1.id,
                      swap_with |-> swap_with ])
    /\ IF StoredAssignment(swap_with) = None
       THEN /\ flashes' = << << "danger", "swap_not_found" >> >>
            /\ UNCHANGED db_assignments
       ELSE LET assignment2 == Val(StoredAssignment(swap_with))
            IN  /\ db_assignments' =
                      WithWorkers((assignment1.id :> assignment2.worker_id)
                                     @@ (assignment2.id :> assignment1.worker_id))
                /\ flashes' = << << "success", "swapped" >> >>
    /\ UNCHANGED << period, db_roles, db_workers, db_ratings, db_slots, alpha, logVars,
                    db_at_start, ratings_import, other_request, rng, random_seed, draw_log,
                    genVars, engVars >>

(* ------------------------------------------------------------------ *)
(* SpecManual: one automatic run, then manual edits and swaps         *)
(* ------------------------------------------------------------------ *)
\* A worker qualified for both roles and a worker qualified for role 1 only
ManualWorkers ==
    << Worker(1, [ qualified_roles |-> {1, 2}, constraints |-> {}, max_hours_per_week |-> None ]),
       Worker(2, [ qualified_roles |-> {1}, constraints |-> {}, max_hours_per_week |-> None ]) >>

InitManual ==
    /\ InitAssign
    /\ workers = ManualWorkers
    /\ db_ratings = {}

ManualEdit ==
    \E assignment \in db_assignments, form \in EditForms, active \in BOOLEAN :
        EditAssignmentWorker(assignment, form, active)

ManualSwap ==
    \E assignment1 \in db_assignments, swap_with \in { Val(sd.id) : sd \in db_slots } \cup { 0 } :
        SwapAssignments(assignment1, swap_with)

NextManual == NextAssign \/ ManualEdit \/ ManualSwap

SpecManual == InitManual /\ [][NextManual]_vars

(* ------------------------------------------------------------------ *)
(* Properties of the helper functions                                 *)
(* ------------------------------------------------------------------ *)
DifficultyCalled == call /= None /\ Val(call).fn = "get_worker_individual_difficulty"

\* The stored base difficulty of a role id (hundredths), 1.0 when the role is missing
BaseOf(role_id) ==
    IF \E r \in Range(db_roles) : r.id = role_id
    THEN (CHOOSE r \in Range(db_roles) : r.id = role_id).difficulty_multiplier
    ELSE 100

\* The stored ratings of a (worker, role) pair
RatingsOf(worker_id, role_id) ==
    { x.difficulty_rating : x \in { y \in db_ratings : y.worker_id = worker_id
                                                       /\ y.job_role_id = role_id } }

\* C11 (hybrid difficulty): with a rating for the (worker, role) pair the
\* result is alpha*base + (1-alpha)*rating, without one it is the role's base
\* difficulty (1.0 when the role is missing); alpha = 1 gives the base, alpha
\* = 0 the worker's rating, and the result lies between min(base, rating) and
\* max(base, rating).  Results are in thousandths, the base in hundredths,
\* alpha and the rating in tenths.
C11_HybridDifficulty ==
    DifficultyCalled =>
        LET c == Val(call)
            base == BaseOf(c.role_id)
            rs == RatingsOf(c.worker_id, c.role_id)
        IN  /\ rs = {} => c.result = 10 * base
            /\ \A rating \in rs :
                  /\ c.result = c.arg * base + (10 - c.arg) * (10 * rating)
                  /\ c.arg = 10 => c.result = 10 * base
                  /\ c.arg = 0 => c.result = 100 * rating
                  /\ Min2(10 * base, 100 * rating) <= c.result
                  /\ c.result <= Max2(10 * base, 100 * rating)
            /\ (c.role_id \notin { r.id : r \in Range(db_roles) } /\ rs = {}) => c.result = 1000

\* C11 witness: a call with a rating that differs from the base and a weight
\* strictly inside (0, 1), so the result is strictly between the two
C11_Witness ==
    /\ DifficultyCalled
    /\ \E rating \in RatingsOf(Val(call).worker_id, Val(call).role_id) :
          /\ 10 * rating /= BaseOf(Val(call).role_id)
          /\ Val(call).arg \in 1..9
          /\ Min2(10 * BaseOf(Val(call).role_id), 100 * rating) < Val(call).result
          /\ Val(call).result < Max2(10 * BaseOf(Val(call).role_id), 100 * rating)

PenaltyCalled == call /= None /\ Val(call).fn = "get_recent_role_penalty"

\* The days d in {1,2,3} with the role given to the worker on (slot date - d)
MatchingDays ==
    { d \in 1..3 : << Val(call).worker_id, DateOf(Val(call).arg) - d, Val(call).role_id >>
                      \in recent_role_assignments }

C13_PenaltyValues ==
    PenaltyCalled =>
        /\ 1 \in MatchingDays => Val(call).result = 20
        /\ (2 \in MatchingDays /\ 1 \notin MatchingDays) => Val(call).result = 15
        /\ MatchingDays = { 3 } => Val(call).result = 12 /\ Val(call).result > 10

(* ------------------------------------------------------------------ *)
(* Uploaded matrices                                                  *)
(* ------------------------------------------------------------------ *)
ImportColumns == 4
MaxImportRows == 2

\* The header row names the roles 1..ImportColumns
ImportHeaders == { [ c \in 1..ImportColumns |-> c ] }

\* A row with the same number in its first n cells
UniformCells(raw, n) == [ c \in 1..ImportColumns |-> IF c <= n THEN Some(raw) ELSE None ]

\* Rows of cells: blank, the same value in 1, 2 or all cells (0 and 7.0 are
\* clamped to 1 and 5), all 3 but one 4, two different values, and the
\* halves 1.5, 2.5, 3.5, 4.5 that round to 2, 2, 4, 4
ImportCells ==
    { UniformCells(raw, n) : raw \in { 0, 30, 70 }, n \in { 0, 1, 2, ImportColumns } }
        \cup { [ c \in 1..ImportColumns |-> IF c = ImportColumns THEN Some(40) ELSE Some(30) ],
               [ c \in 1..ImportColumns |-> IF c = 1 THEN Some(20)
                                            ELSE IF c = 2 THEN Some(40) ELSE None ],
               [ c \in 1..ImportColumns |-> IF c <= 4 THEN Some(10 * c + 5) ELSE Some(30) ] }

\* Worker rows; the worker's name is the number of the row
ImportMatrices ==
    UNION { { [ r \in 1..n |-> [ worker |-> r, cells |-> cs[r] ] ] : cs \in [ 1..n -> ImportCells ] } :
            n \in 1..MaxImportRows }

(* ------------------------------------------------------------------ *)
(* import_worker_ratings (routes.py): the ratings matrix import       *)
(* ------------------------------------------------------------------ *)
\* A CSV cell is empty / N/A (None) or a number, kept in tenths.  The header
\* names the roles; a role's name is its id here.

\* float(rating_str) clamped to [1, 5], then int(round(rating)): an integer
\* 1..5; round() takes a half to the even neighbour
ParseRating(raw) ==
    LET clamped == IF raw < 10 THEN 10 ELSE IF raw > 50 THEN 50 ELSE raw
        q == clamped \div 10
        r == clamped % 10
    IN  IF r < 5 THEN q
        ELSE IF r > 5 THEN q + 1
        ELSE IF q % 2 = 0 THEN q ELSE q + 1

\* The distinct elements of a sequence in the order of their first appearance
\* (the key order of a dict filled by appending)
FirstAppearance(seq) ==
    LET firsts == { i \in 1..Len(seq) : \A j \in 1..(i - 1) : seq[j] /= seq[i] }
    IN  [ k \in 1..Cardinality(firsts) |->
            seq[CHOOSE i \in firsts : Cardinality({ j \in firsts : j <= i }) = k] ]

\* The rating cells of the worker rows in reading order (rows, then columns)
ParsedEntries(header, rows) ==
    LET n == Len(header)
        cells == [ k \in 1..(Len(rows) * n) |->
                     [ worker |-> rows[((k - 1) \div n) + 1].worker,
                       role |-> header[((k - 1) % n) + 1],
                       cell |-> rows[((k - 1) \div n) + 1].cells[((k - 1) % n) + 1] ] ]
        rated == SelectSeq(cells, LAMBDA e : e.cell /= None)
    IN  [ k \in 1..Len(rated) |-> [ worker |-> rated[k].worker, role |-> rated[k].role,
                                    rating |-> ParseRating(Val(rated[k].cell)) ] ]

\* ratings_by_role: a dict role -> list of ratings, as the sequence of its items
RatingsByRole(entries) ==
    LET keys == FirstAppearance([ k \in 1..Len(entries) |-> entries[k].role ])
    IN  [ k \in 1..Len(keys) |->
            [ role |-> keys[k],
              ratings |-> SelectSeq(entries, LAMBDA e : e.role = keys[k]) ] ]

RECURSIVE AllRatings(_)
\* The rating entries of a dict in the order of ratings_by_role.items()
AllRatings(ratings_by_role) ==
    IF ratings_by_role = << >> THEN << >>
    ELSE Head(ratings_by_role).ratings \o AllRatings(Tail(ratings_by_role))

RECURSIVE SumSeq(_)
SumSeq(xs) == IF xs = << >> THEN 0 ELSE Head(xs) + SumSeq(Tail(xs))

\* statistics.variance(xs) is (n*sum(x^2) - sum(x)^2) / (n*(n-1)); the two
\* tests of the code on it, in integers
VarianceIsZero(xs) ==
    Len(xs) * SumSeq([ k \in 1..Len(xs) |-> xs[k] * xs[k] ]) = SumSeq(xs) * SumSeq(xs)

VarianceBelowThreshold(xs) ==
    10 * (Len(xs) * SumSeq([ k \in 1..Len(xs) |-> xs[k] * xs[k] ]) - SumSeq(xs) * SumSeq(xs))
        < 3 * Len(xs) * (Len(xs) - 1)

\* The pattern found in one worker's rating list ("none" when not extreme)
RatingPattern(worker_rating_list) ==
    IF Len(worker_rating_list) < 2 THEN "none"
    ELSE IF VarianceIsZero(worker_rating_list)
         THEN IF 2 * SumSeq(worker_rating_list) <= 3 * Len(worker_rating_list) THEN "all_easy"
              ELSE IF 2 * SumSeq(worker_rating_list) >= 9 * Len(worker_rating_list) THEN "all_hard"
              ELSE "none"
    ELSE IF VarianceBelowThreshold(worker_rating_list) THEN "low_variance"
    ELSE "none"

\* detect_extreme_rating_patterns: the warnings, the extreme workers and the
\* cleaned dict (the normalized ratings it also returns are not used)
detect_extreme_rating_patterns(ratings_by_role) ==
    LET all == AllRatings(ratings_by_role)
        worker_names == FirstAppearance([ k \in 1..Len(all) |-> all[k].worker ])
        worker_rating_list(w) ==
            LET mine == SelectSeq(all, LAMBDA e : e.worker = w)
            IN  [ k \in 1..Len(mine) |-> mine[k].rating ]
        flagged == SelectSeq(worker_names,
                             LAMBDA w : RatingPattern(worker_rating_list(w)) /= "none")
        extreme_workers ==
            [ k \in 1..Len(flagged) |-> << flagged[k], RatingPattern(worker_rating_list(flagged[k])) >> ]
        is_extreme(w) == \E k \in 1..Len(extreme_workers) : extreme_workers[k][1] = w
        cleaned_list(item) == SelectSeq(item.ratings, LAMBDA e : ~ is_extreme(e.worker))
        kept == SelectSeq(ratings_by_role, LAMBDA item : cleaned_list(item) /= << >>)
        lost == SelectSeq(ratings_by_role, LAMBDA item : cleaned_list(item) = << >>)
    IN  [ warnings |-> [ k \in 1..Len(extreme_workers) |->
                           [ kind |-> extreme_workers[k][2], about |-> extreme_workers[k][1] ] ]
                       \o [ k \in 1..Len(lost) |->
                              [ kind |-> "no_valid_ratings", about |-> lost[k].role ] ],
          extreme_workers |-> extreme_workers,
          cleaned_ratings |-> [ k \in 1..Len(kept) |->
                                  [ role |-> kept[k].role, ratings |-> cleaned_list(kept[k]) ] ] ]

\* round(sum / n, 2) in hundredths
RoundedAverage(sum, n) ==
    LET q == (100 * sum) \div n
        r == (100 * sum) % n
    IN  IF 2 * r < n THEN q
        ELSE IF 2 * r > n THEN q + 1
        ELSE IF q % 2 = 0 THEN q ELSE q + 1

\* The dict the averages are taken from
FinalRatings(ratings_by_role) ==
    LET cleaned_ratings == detect_extreme_rating_patterns(ratings_by_role).cleaned_ratings
    IN  IF cleaned_ratings /= << >> THEN cleaned_ratings ELSE ratings_by_role

\* The role table after the loop over final_ratings: a role named in the dict
\* gets the rounded average of its list, the others keep their difficulty
RolesAfterImport(final_ratings) ==
    [ i \in DOMAIN db_roles |->
        IF \E k \in 1..Len(final_ratings) : final_ratings[k].role = db_roles[i].id
        THEN LET item == final_ratings[CHOOSE k \in 1..Len(final_ratings) :
                                          final_ratings[k].role = db_roles[i].id]
                 rating_values == [ k \in 1..Len(item.ratings) |-> item.ratings[k].rating ]
             IN  [ db_roles[i] EXCEPT !.difficulty_multiplier =
                                        RoundedAverage(SumSeq(rating_values), Len(rating_values)) ]
        ELSE db_roles[i] ]

\* POST /period/<id>/import_ratings.  An upload that is missing, not a CSV
\* file, too short or without the template's header is turned away, as is a
\* matrix without a single rating; otherwise the averages of final_ratings
\* are written to the roles and committed.
ImportWorkerRatings ==
    /\ pc = "import_request"
    /\ pc' = "import_done"
    /\ \E upload_ok \in BOOLEAN, header \in ImportHeaders, rows \in ImportMatrices :
          LET ratings_by_role == RatingsByRole(ParsedEntries(header, rows))
              detected == detect_extreme_rating_patterns(ratings_by_role)
              final_ratings == FinalRatings(ratings_by_role)
          IN  \/ /\ ~ upload_ok
                 /\ ratings_import' = Some([ outcome |-> "rejected", ratings_by_role |-> << >>,
                                             extreme_workers |-> << >>,
                                             pattern_warnings |-> << >>,
                                             final_ratings |-> << >> ])
                 /\ db_roles' = db_roles
              \/ /\ upload_ok
                 /\ ratings_by_role = << >>
                 /\ ratings_import' = Some([ outcome |-> "no_ratings", ratings_by_role |-> << >>,
                                             extreme_workers |-> << >>,
                                             pattern_warnings |-> << >>,
                                             final_ratings |-> << >> ])
                 /\ db_roles' = db_roles
              \/ /\ upload_ok
                 /\ ratings_by_role /= << >>
                 /\ ratings_import' = Some([ outcome |-> "imported",
                                             ratings_by_role |-> ratings_by_role,
                                             extreme_workers |-> detected.extreme_workers,
                                             pattern_warnings |-> detected.warnings,
                                             final_ratings |-> final_ratings ])
                 /\ db_roles' = RolesAfterImport(final_ratings)
    /\ UNCHANGED << period, db_workers, db_ratings, db_slots, db_assignments, alpha, logVars,
                    db_at_start, call, other_request, rng, random_seed, draw_log, genVars, flashes,
                    engVars >>

(* ------------------------------------------------------------------ *)
(* SpecImport: one ratings import request                             *)
(* ------------------------------------------------------------------ *)
\* The roles of the period: all the header's roles or all but the first, with
\* one stored difficulty
ImportRoleTables ==
    { [ i \in 1..(ImportColumns - skip) |-> JobRole(i + skip, 1, H(8), FALSE, 0, 0, FALSE, d) ] :
        skip \in { 0, 1 }, d \in { 100, 250 } }

InitImport ==
    /\ pc = "import_request"
    /\ period = [ start |-> 0, end |-> DayLen ]
    /\ db_roles \in ImportRoleTables
    /\ db_workers = << >>
    /\ db_ratings = {}
    /\ db_slots = {}
    /\ db_assignments = {}
    /\ alpha = 5
    /\ IdleRequest
    /\ IdleGenerator
    /\ IdleEngine

NextImport == ImportWorkerRatings

SpecImport == InitImport /\ [][NextImport]_vars

(* ------------------------------------------------------------------ *)
(* Properties of the ratings import                                   *)
(* ------------------------------------------------------------------ *)
Imported == ratings_import /= None /\ Val(ratings_import).outcome = "imported"

\* The workers who submitted ratings, and one worker's ratings
RatingWorkers == { e.worker : e \in Range(AllRatings(Val(ratings_import).ratings_by_role)) }

RatingsFrom(w) ==
    LET mine == SelectSeq(AllRatings(Val(ratings_import).ratings_by_role), LAMBDA e : e.worker = w)
    IN  [ k \in 1..Len(mine) |-> mine[k].rating ]

FlaggedWorkers == { x[1] : x \in Range(Val(ratings_import).extreme_workers) }

WorkerWarnings(w) ==
    { k \in DOMAIN Val(ratings_import).pattern_warnings :
        /\ Val(ratings_import).pattern_warnings[k].about = w
        /\ Val(ratings_import).pattern_warnings[k].kind /= "no_valid_ratings" }

\* C14 (anti-gaming flagging): every worker with at least two ratings whose
\* ratings have zero variance (the same value for every role, whatever the
\* value) or near-zero variance (below 0.3) is flagged as extreme, with one
\* warning for that worker.
C14_UniformRatersFlagged ==
    Imported =>
        \A w \in RatingWorkers :
            (Len(RatingsFrom(w)) >= 2 /\ VarianceBelowThreshold(RatingsFrom(w))) =>
                /\ w \in FlaggedWorkers
                /\ Cardinality(WorkerWarnings(w)) = 1

\* The part of C14 the code keeps: uniform raters of 1 or of 5 and raters
\* with a small non-zero variance are flagged with one warning each, and
\* nobody else is flagged
C14_ExtremeRatersFlagged ==
    Imported =>
        \A w \in RatingWorkers :
            LET xs == RatingsFrom(w)
                uniform == \A k \in DOMAIN xs : xs[k] = xs[1]
                extreme == /\ Len(xs) >= 2
                           /\ VarianceBelowThreshold(xs)
                           /\ uniform => xs[1] \in { 1, 5 }
            IN  /\ extreme <=> w \in FlaggedWorkers
                /\ Cardinality(WorkerWarnings(w)) = IF extreme THEN 1 ELSE 0

\* The ratings of a role by workers that were not flagged
TrustedRatings(role_id) ==
    LET mine == SelectSeq(AllRatings(Val(ratings_import').ratings_by_role),
                          LAMBDA e : e.role = role_id
                                     /\ e.worker \notin { x[1] : x \in Range(Val(ratings_import').extreme_workers) })
    IN  [ k \in 1..Len(mine) |-> mine[k].rating ]

DifficultyFromTrusted(i) ==
    IF TrustedRatings(db_roles[i].id) = << >>
    THEN db_roles'[i].difficulty_multiplier = db_roles[i].difficulty_multiplier
    ELSE db_roles'[i].difficulty_multiplier
            = RoundedAverage(SumSeq(TrustedRatings(db_roles[i].id)),
                             Len(TrustedRatings(db_roles[i].id)))

\* C15 (anti-gaming discard): after an import every role's difficulty is the
\* average of the ratings of non-flagged workers for it, and a role without
\* such ratings keeps its difficulty, also when every rating worker is flagged.
C15_FlaggedRatingsDiscarded ==
    [][ (ratings_import' /= None /\ Val(ratings_import').outcome = "imported")
            => \A i \in DOMAIN db_roles : DifficultyFromTrusted(i) ]_vars

\* The part of C15 the code keeps: when some worker's ratings survive the
\* cleaning, no flagged rating contributes
C15_DiscardedUnlessAllFlagged ==
    [][ ( /\ ratings_import' /= None
          /\ Val(ratings_import').outcome = "imported"
          /\ \E w \in { e.worker : e \in Range(AllRatings(Val(ratings_import').ratings_by_role)) } :
                w \notin { x[1] : x \in Range(Val(ratings_import').extreme_workers) } )
            => \A i \in DOMAIN db_roles : DifficultyFromTrusted(i) ]_vars

(* ------------------------------------------------------------------ *)
(* Properties of assign_shifts_fairly                                 *)
(* ------------------------------------------------------------------ *)
Pending == 1..Len(all_pending_assignments)

\* Positions of the pending assignments that have a worker
Assigned == { i \in Pending : all_pending_assignments[i].worker_id /= None }

WorkerOf(i) ==
    CHOOSE w \in Range(workers) : w.id = Val(all_pending_assignments[i].worker_id)

SlotOf(i) == Val(slot_definitions_map(all_pending_assignments[i].shift_definition_id))

\* Real minutes of the slots assigned to worker id w among the first n pending
RECURSIVE AssignedMinutes(_, _)
AssignedMinutes(w, n) ==
    IF n = 0 THEN 0
    ELSE AssignedMinutes(w, n - 1)
         + ( IF all_pending_assignments[n].worker_id = Some(w)
             THEN SlotOf(n).slot_end_datetime - SlotOf(n).slot_start_datetime
             ELSE 0 )

EngineReturned == pc = "engine_returned"

\* C1 (no double-booking): no two distinct slots assigned to the same worker
\* in a run overlap in time, i.e. max(starts) < min(ends) never holds for
\* them; slots that merely touch are allowed.
C1_NoDoubleBooking ==
    \A i, j \in Assigned :
        ( i /= j /\ all_pending_assignments[i].worker_id = all_pending_assignments[j].worker_id )
        => ~( Max2(SlotOf(i).slot_start_datetime, SlotOf(j).slot_start_datetime)
                < Min2(SlotOf(i).slot_end_datetime, SlotOf(j).slot_end_datetime) )

\* C1 witness: a finished run in which one worker holds two touching slots
\* while a slot overlapping one of them went to somebody else or to nobody
C1_Witness ==
    /\ EngineReturned
    /\ \E i, j \in Assigned :
          /\ all_pending_assignments[i].worker_id = all_pending_assignments[j].worker_id
          /\ SlotOf(i).slot_end_datetime = SlotOf(j).slot_start_datetime
          /\ \E k \in Pending :
                /\ all_pending_assignments[k].worker_id /= all_pending_assignments[i].worker_id
                /\ SlotOf(k).slot_start_datetime < SlotOf(i).slot_end_datetime
                /\ SlotOf(i).slot_start_datetime < SlotOf(k).slot_end_datetime

\* C2 (max-hours invariant): for every worker whose max_hours_per_week is set
\* to any non-null value, the real hours of the slots assigned to the worker
\* in the run do not exceed that value.
C2_MaxHoursInvariant ==
    \A w \in Range(workers) :
        w.max_hours_per_week /= None
        => AssignedMinutes(w.id, Len(all_pending_assignments)) <= H(Val(w.max_hours_per_week))

\* C3 (qualification invariant): every assignment with a worker refers to a
\* worker whose qualified roles contain the slot's role, and a worker not
\* qualified for a slot's role is never in that slot's eligible set.
C3_QualificationInvariant ==
    /\ \A i \in Assigned : SlotOf(i).job_role_id \in WorkerOf(i).qualified_roles
    /\ pc = "engine_loop" =>
          \A sd \in db_slots : \A k \in EligibleIndices(sd) :
              sd.job_role_id \in workers[k].qualified_roles

\* C3 witness: a finished run gave a slot to a qualified worker while another
\* worker of the list is not qualified for that slot's role
C3_Witness ==
    /\ EngineReturned
    /\ \E i \in Assigned : \E w \in Range(workers) :
          /\ SlotOf(i).job_role_id \notin w.qualified_roles
          /\ SlotOf(i).job_role_id \in WorkerOf(i).qualified_roles

\* The scenario of C4: two workers qualified for the only slot, worker a has a
\* constraint covering the slot, worker b is free for it
C4_Scenario(a, b) ==
    /\ Len(workers) = 2 /\ Len(all_pending_assignments) = 1
    /\ a /= b
    /\ SlotOf(1).job_role_id \in workers[a].qualified_roles
    /\ SlotOf(1).job_role_id \in workers[b].qualified_roles
    /\ \E c \in workers[a].constraints :
          /\ c.start_datetime <= SlotOf(1).slot_start_datetime
          /\ SlotOf(1).slot_end_datetime <= c.end_datetime
    /\ \A c \in workers[b].constraints :
          ~( SlotOf(1).slot_start_datetime < c.end_datetime
             /\ SlotOf(1).slot_end_datetime > c.start_datetime )
    /\ \/ workers[b].max_hours_per_week = None
       \/ SlotOf(1).slot_end_datetime - SlotOf(1).slot_start_datetime
            <= H(Val(workers[b].max_hours_per_week))

\* C4 (availability invariant): no assigned slot overlaps an unavailability
\* constraint of its worker (slot.start < c.end and slot.end > c.start); with
\* two qualified workers and one slot, one of them having a constraint that
\* covers the slot, the other worker is selected whatever the draws.
C4_AvailabilityInvariant ==
    /\ \A i \in Assigned : \A c \in WorkerOf(i).constraints :
          ~( SlotOf(i).slot_start_datetime < c.end_datetime
             /\ SlotOf(i).slot_end_datetime > c.start_datetime )
    /\ EngineReturned =>
          \A a, b \in 1..Len(workers) :
              C4_Scenario(a, b) => all_pending_assignments[1].worker_id = Some(workers[b].id)

\* C4 witness: the two-worker scenario was run and the free worker got the slot
C4_Witness ==
    /\ EngineReturned
    /\ \E a, b \in 1..Len(workers) :
          /\ C4_Scenario(a, b)
          /\ all_pending_assignments[1].worker_id = Some(workers[b].id)

\* C7 (degenerate inputs): with an empty worker list the engine returns
\* success = false with exactly one diagnostic, of severity error, attempts no
\* assignment and leaves every pending assignment without worker; with a
\* worker but no pending assignment it returns success = true with exactly one
\* diagnostic, of severity info, and changes nothing.
C7_DegenerateInputs ==
    /\ Len(workers) = 0 =>
          /\ pc \in { "engine_start", "engine_returned" }
          /\ idx = 0 /\ assigned_count = 0
          /\ \A i \in Pending : all_pending_assignments[i].worker_id = None
          /\ \A a \in db_assignments : a.worker_id = None
          /\ EngineReturned =>
                /\ result = Some(FALSE)
                /\ Len(algo_messages) = 1
                /\ algo_messages[1][1] = "error"
    /\ ( Len(workers) > 0 /\ Len(all_pending_assignments) = 0 ) =>
          /\ pc \in { "engine_start", "engine_returned" }
          /\ idx = 0 /\ assigned_count = 0 /\ unassigned_count = 0
          /\ db_assignments = {}
          /\ EngineReturned =>
                /\ result = Some(TRUE)
                /\ Len(algo_messages) = 1
                /\ algo_messages[1][1] = "info"

\* C7 witness: the engine returned from a call with no worker and pending slots
C7_Witness ==
    /\ EngineReturned
    /\ Len(workers) = 0
    /\ Len(all_pending_assignments) > 0
    /\ result = Some(FALSE)

\* Number of pending assignments left without worker
Unassigned == Cardinality(Pending \ Assigned)

C6_Reproducibility ==
    ( RunOver /\ prev_run /= None /\ ~CommitFault /\ ~Val(prev_run).fault ) =>
        /\ Val(prev_run).seed = Val(random_seed) => Outcome = Val(prev_run).outcome
        /\ Val(prev_run).draws = draw_log => Outcome = Val(prev_run).outcome

\* C6 witness: two completed executions with the same seed on a database
\* where several workers compete: draws were made, slots were assigned
C6_Witness ==
    /\ pc = "request_raised"
    /\ prev_run /= None
    /\ ~CommitFault /\ ~Val(prev_run).fault
    /\ Val(prev_run).seed = Val(random_seed)
    /\ Len(db_workers) >= 2
    /\ Len(draw_log) > 0
    /\ \E o \in Outcome : o[5] /= None
    /\ Outcome = Val(prev_run).outcome

\* The database of the concrete scenario of C9
C9_Scenario ==
    /\ period = [ start |-> H(8), end |-> 2 * DayLen + H(8) ]
    /\ Len(db_roles) = 1
    /\ db_roles[1].duration = H(8)
    /\ db_roles[1].number_needed = 1
    /\ ~has_time_restrictions(db_roles[1])
    /\ db_roles[1].difficulty_multiplier = 100
    /\ Len(db_workers) = 1
    /\ db_workers[1].qualified_roles = { db_roles[1].id }
    /\ db_workers[1].constraints = {}
    /\ db_workers[1].max_hours_per_week = None
    /\ db_ratings = {}

\* 08:00-16:00, 16:00-00:00 and 00:00-08:00 on each of the two days
C9_SixSlots ==
    { << d * DayLen + H(8) + k * H(8), d * DayLen + H(16) + k * H(8) >> :
        d \in 0..1, k \in 0..2 }

\* C9 (concrete scenario): Monday 08:00 to Wednesday 08:00, one role of 8
\* hours with headcount 1 and no work window: generation yields exactly the 6
\* slots 08-16, 16-00, 00-08 of the two days; a single qualified worker
\* without constraints or max hours gets all 6, and with base difficulty 1.0
\* and no rating the worker's weighted hours equal the real hours, 48.
C9_ConcreteScenario ==
    C9_Scenario =>
        /\ pc \in { "gen_done", "engine_start", "engine_loop", "engine_returned" } =>
              /\ Len(generated_slot_objects) = 6
              /\ { << sd.slot_start_datetime, sd.slot_end_datetime >> :
                     sd \in Range(generated_slot_objects) } = C9_SixSlots
        /\ pc = "engine_returned" =>
              /\ Cardinality(db_assignments) = 6
              /\ \A a \in db_assignments : a.worker_id = Some(db_workers[1].id)
              /\ { a.shift_definition_id : a \in db_assignments }
                    = { Val(sd.id) : sd \in db_slots }
              /\ worker_assigned_hours_in_period[db_workers[1].id] = H(48)
              /\ worker_weighted_hours[db_workers[1].id]
                    = 1000 * worker_assigned_hours_in_period[db_workers[1].id]

\* C9 witness: the scenario ran to the engine's return with six stored slots
C9_Witness ==
    /\ C9_Scenario
    /\ pc = "engine_returned"
    /\ Cardinality(db_slots) = 6
    /\ assigned_count = 6

\* The engine's final commit went through in this request
EngineCommitted ==
    \E k \in 1..Len(algo_messages) :
        algo_messages[k] \in { << "info", "remain_unassigned" >>, << "success", "all_assigned" >> }

\* C16 (run atomicity): when a request is over, either the assignments of the
\* run are all committed, or the stored slots and assignments of the period
\* are what they were when the request started (nothing of an early exit or
\* of a failed final commit remains: no slot, placeholder or deletion).
C16_RunAtomicity ==
    RunOver =>
        \/ EngineCommitted /\ db_assignments = CommittedAssignments
        \/ db_slots = db_at_start.slots /\ db_assignments = db_at_start.assignments

\* The stored slot of the k-th pending assignment in processing order
PendingSlot(k) == Val(slot_definitions_map(all_pending_assignments[k].shift_definition_id))

\* Slot a is processed no later than slot b under the order (start time,
\* role id, instance index)
OrderedBefore(a, b) ==
    \/ a.slot_start_datetime < b.slot_start_datetime
    \/ /\ a.slot_start_datetime = b.slot_start_datetime
       /\ \/ a.job_role_id < b.job_role_id
          \/ a.job_role_id = b.job_role_id /\ a.instance_number <= b.instance_number

\* C17 (processing order): the engine's loop goes through the pending slots
\* in ascending start time, slots with equal start time in ascending role id
\* and then ascending instance index, whatever order the caller passed.
C17_ProcessingOrder ==
    pc = "engine_loop" =>
        \A i, j \in 1..Len(all_pending_assignments) :
            i < j => OrderedBefore(PendingSlot(i), PendingSlot(j))

\* The part of C17 the code keeps: ascending start time
C17_AscendingStart ==
    pc = "engine_loop" =>
        \A i, j \in 1..Len(all_pending_assignments) :
            i < j => PendingSlot(i).slot_start_datetime <= PendingSlot(j).slot_start_datetime

\* The score of a worker for a slot: weighted hours so far times the
\* rotation penalty for the slot's role and date
Score(worker, slot_def) ==
    worker_weighted_hours[worker.id]
      * get_recent_role_penalty(worker.id, slot_def.job_role_id,
                                slot_def.slot_start_datetime, recent_role_assignments)

\* The loop assigns the slot it is processing in this step
SlotAssignedInStep ==
    /\ pc = "engine_loop"
    /\ idx' = idx + 1
    /\ assigned_count' = assigned_count + 1

\* C18 (least-burdened selection): whenever a slot is assigned, the chosen
\* worker is eligible and its score (weighted hours so far times the rotation
\* penalty for this role and slot date) is at most the score of every worker
\* eligible for the slot at that moment, so a worker with a strictly larger
\* score is never chosen and the draw decides only among the minimum.
C18_LeastBurdened ==
    [][ SlotAssignedInStep =>
          \E i \in 1..Len(workers) :
             /\ all_pending_assignments'[idx + 1].worker_id = Some(workers[i].id)
             /\ IsEligible(workers[i], PendingSlot(idx + 1))
             /\ \A j \in 1..Len(workers) :
                   IsEligible(workers[j], PendingSlot(idx + 1))
                      => Score(workers[i], PendingSlot(idx + 1))
                           <= Score(workers[j], PendingSlot(idx + 1)) ]_vars

\* The worker of the role-1 slot of day d in the finished run
FairWorkerOfDay(d) ==
    { Val(all_pending_assignments[k].worker_id) :
        k \in { n \in 1..Len(all_pending_assignments) :
                  /\ all_pending_assignments[n].shift_definition_id = d + 1
                  /\ all_pending_assignments[n].worker_id /= None } }

\* C18 witness: two equal workers without ratings and the role-1 slots of
\* days 0, 1, 2: day 1 went to the worker without hours, and day 2 went back
\* to the worker of day 0, whose penalty (1.5) is the smaller one
C18_Witness ==
    /\ pc = "engine_returned"
    /\ Len(workers) = 2
    /\ workers[1].qualified_roles = workers[2].qualified_roles
    /\ workers[1].max_hours_per_week = None /\ workers[2].max_hours_per_week = None
    /\ db_ratings = {}
    /\ { all_pending_assignments[k].shift_definition_id :
           k \in 1..Len(all_pending_assignments) } = { 1, 2, 3 }
    /\ \E a, b \in { 1, 2 } :
          /\ a /= b
          /\ FairWorkerOfDay(0) = { a }
          /\ FairWorkerOfDay(1) = { b }
          /\ FairWorkerOfDay(2) = { a }

\* alpha*base + (1-alpha)*rating for a rated (worker, role) pair, else the base
EffectiveDifficulty(w, role_id) ==
    IF RatingsOf(w, role_id) = {} THEN 10 * BaseOf(role_id)
    ELSE alpha * BaseOf(role_id)
           + (10 - alpha) * 10 * (CHOOSE r \in RatingsOf(w, role_id) : TRUE)

\* Duration times effective difficulty of the slots assigned to worker id w
\* among the first n pending
RECURSIVE WeightedMinutes(_, _)
WeightedMinutes(w, n) ==
    IF n = 0 THEN 0
    ELSE WeightedMinutes(w, n - 1)
         + ( IF all_pending_assignments[n].worker_id = Some(w)
             THEN (SlotOf(n).slot_end_datetime - SlotOf(n).slot_start_datetime)
                    * EffectiveDifficulty(w, SlotOf(n).job_role_id)
             ELSE 0 )

\* C19 (ledger consistency): at every point of the engine's loop and after
\* it, for every worker the real hours are the sum of the durations of the
\* slots assigned to the worker so far and the weighted hours the sum of
\* duration times effective difficulty over those slots: both are 0 before
\* the first slot, an assignment changes the chosen worker's entries only,
\* and the rotation penalty is not part of the accumulated weighted hours.
C19_LedgerConsistency ==
    pc \in { "engine_loop", "engine_commit_failed" } \/ (EngineReturned /\ idx > 0) =>
        /\ DOMAIN worker_assigned_hours_in_period = { w.id : w \in Range(workers) }
        /\ DOMAIN worker_weighted_hours = { w.id : w \in Range(workers) }
        /\ \A w \in { x.id : x \in Range(workers) } :
              /\ worker_assigned_hours_in_period[w] = AssignedMinutes(w, idx)
              /\ worker_weighted_hours[w] = WeightedMinutes(w, idx)
              /\ idx = 0 => worker_assigned_hours_in_period[w] = 0 /\ worker_weighted_hours[w] = 0

\* C19 witness: a single worker who rated role 1 at 3.0 got the role-1 slots
\* of days 0 and 1; the slot of day 1 was scored with penalty 2.0, and the
\* ledger holds 16 hours at difficulty 2.0
C19_Witness ==
    /\ EngineReturned
    /\ Len(workers) = 1
    /\ db_ratings = { [ worker_id |-> 1, job_role_id |-> 1, difficulty_rating |-> 30 ] }
    /\ { all_pending_assignments[k].shift_definition_id : k \in Assigned } = { 1, 2 }
    /\ << 1, 0, 1 >> \in recent_role_assignments
    /\ get_recent_role_penalty(1, 1, DayLen + H(8), recent_role_assignments) = 20
    /\ worker_assigned_hours_in_period[1] = H(16)
    /\ worker_weighted_hours[1] = H(16) * 2000

\* Two half-open intervals [s1, e1) and [s2, e2) share an instant
Intersect(s1, e1, s2, e2) == s1 < e2 /\ s2 < e1

\* The worker is eligible for the slot being processed: qualified for its
\* role, no constraint and no slot given to the worker earlier in this run
\* overlapping it, and the worker's hours with this slot within the cap
EligibleNow(worker) ==
    LET slot == PendingSlot(idx + 1)
    IN  /\ slot.job_role_id \in worker.qualified_roles
        /\ \A c \in worker.constraints :
              ~ Intersect(slot.slot_start_datetime, slot.slot_end_datetime,
                          c.start_datetime, c.end_datetime)
        /\ \A k \in 1..idx :
              all_pending_assignments[k].worker_id = Some(worker.id)
                 => ~ Intersect(slot.slot_start_datetime, slot.slot_end_datetime,
                                PendingSlot(k).slot_start_datetime, PendingSlot(k).slot_end_datetime)
        /\ worker.max_hours_per_week /= None
              => AssignedMinutes(worker.id, idx)
                   + (slot.slot_end_datetime - slot.slot_start_datetime)
                   <= H(Val(worker.max_hours_per_week))

\* One iteration of the loop: the slot stays unassigned, with one warning,
\* exactly when nobody is eligible; otherwise it gets a worker and no message
GreedyStep ==
    (pc = "engine_loop" /\ idx' = idx + 1) =>
        /\ pc' = "engine_loop"
        /\ assigned_count' + unassigned_count' = idx'
        /\ IF \E w \in Range(workers) : EligibleNow(w)
           THEN /\ all_pending_assignments'[idx'].worker_id /= None
                /\ assigned_count' = assigned_count + 1
                /\ unassigned_count' = unassigned_count
                /\ algo_messages' = algo_messages
           ELSE /\ all_pending_assignments'[idx'].worker_id = None
                /\ unassigned_count' = unassigned_count + 1
                /\ assigned_count' = assigned_count
                /\ algo_messages' = Append(algo_messages, << "warning", "could_not_assign" >>)

\* The loop is left after the last pending assignment only
LoopEnd ==
    (pc = "engine_loop" /\ pc' /= "engine_loop") =>
        /\ idx = Len(all_pending_assignments)
        /\ assigned_count + unassigned_count = Len(all_pending_assignments)
        /\ Cardinality({ k \in 1..Len(algo_messages) : algo_messages[k][1] = "warning" })
              = unassigned_count

\* C20 (greedy step completeness): a slot is left unassigned if and only if
\* nobody is eligible for it when it is processed (qualified, no overlapping
\* constraint, no overlapping slot of this run, within max hours); each such
\* slot adds exactly one per-slot warning, the loop goes on, and at the end
\* assigned plus unassigned slots are all the pending assignments.
C20_GreedyCompleteness ==
    [][ GreedyStep /\ LoopEnd ]_vars

\* C20 for worker lists without a cap of 0 hours, where the code's test
\* of the cap agrees with the cap
C20_CompletenessWithPositiveCaps ==
    [][ (\A w \in Range(workers) : w.max_hours_per_week /= Some(0))
            => (GreedyStep /\ LoopEnd) ]_vars

\* The pending assignment being processed has no slot row, or its slot has
\* no role row
DefinitionMissing ==
    slot_definitions_map(all_pending_assignments[idx + 1].shift_definition_id) = None

RoleMissing ==
    /\ ~ DefinitionMissing
    /\ job_role(Val(slot_definitions_map(all_pending_assignments[idx + 1].shift_definition_id))) = None

\* The loop is about to process a pending assignment
LoopStep == pc = "engine_loop" /\ idx < Len(all_pending_assignments) /\ idx' /= idx

\* C21 (data-integrity handling): a pending assignment whose slot definition
\* or whose slot's role does not exist is counted as unassigned, adds one
\* diagnostic of severity error, and the loop goes on with the next slot.
C21_IntegrityHandling ==
    [][ (LoopStep /\ (DefinitionMissing \/ RoleMissing)) =>
            /\ pc' = "engine_loop"
            /\ idx' = idx + 1
            /\ unassigned_count' = unassigned_count + 1
            /\ assigned_count' = assigned_count
            /\ all_pending_assignments' = all_pending_assignments
            /\ Len(algo_messages') = Len(algo_messages) + 1
            /\ algo_messages'[Len(algo_messages')][1] = "error" ]_vars

\* What the code does for a missing slot definition: the slot is counted as
\* unassigned with a diagnostic of severity warning, and the loop goes on
C21_MissingDefinitionWarned ==
    [][ (LoopStep /\ DefinitionMissing) =>
            /\ pc' = "engine_loop"
            /\ idx' = idx + 1
            /\ unassigned_count' = unassigned_count + 1
            /\ algo_messages' = Append(algo_messages, << "warning", "definition_missing" >>) ]_vars

\* What the code does for a slot without role: the engine raises, nothing
\* is counted and no diagnostic is added
C21_MissingRoleRaises ==
    [][ (pc = "engine_loop" /\ idx < Len(all_pending_assignments) /\ RoleMissing
           /\ pc' /= pc) =>
            /\ pc' = "engine_raised"
            /\ unassigned_count' = unassigned_count
            /\ algo_messages' = algo_messages ]_vars

\* C22 (diagnostics propagation): whenever the engine has returned to the
\* request (with success or with a shortfall), the request finishes normally,
\* not by an exception, and every diagnostic of the engine has been shown to
\* the operator.
C22_DiagnosticsPropagated ==
    (RunOver /\ result /= None) =>
        /\ pc = "request_done"
        /\ \A k \in 1..Len(algo_messages) :
              \E j \in 1..Len(flashes) : flashes[j][2] = algo_messages[k][2]

\* What the code does: every request that reaches the engine ends by an
\* exception, and none of the engine's diagnostics is shown
C22_EngineReturnRaises ==
    (RunOver /\ result /= None) =>
        /\ pc = "request_raised"
        /\ \A k \in 1..Len(algo_messages) :
              ~ \E j \in 1..Len(flashes) : flashes[j][2] = algo_messages[k][2]

\* The generation loop of the current role is left in this step
LoopLeft == pc = "gen_loop" /\ pc' /= "gen_loop"

CapWarning == << "warning", "max_iterations" >>

C23_WarningByCount ==
    [][ LoopLeft =>
          /\ iter_count <= max_iter
          /\ generated_slot_objects' = generated_slot_objects
          /\ role_idx' = role_idx + 1
          /\ IF iter_count >= max_iter
             THEN flashes' = Append(flashes, CapWarning)
             ELSE flashes' = flashes ]_vars

\* The 24-hour role is generated in full whether or not the one-minute role
\* hit the cap, before or after it
C23_OtherRolesUnaffected ==
    pc = "gen_done" =>
        { << sd.slot_start_datetime, sd.slot_end_datetime >> :
            sd \in { x \in Range(generated_slot_objects) : x.job_role_id = 2 } }
          = { << k * DayLen, Min2((k + 1) * DayLen, period.end) >> :
                k \in 0..((period.end - 1) \div DayLen) }

\* The instant lies inside the role's window (any instant without window)
InsideWindow(t, role) ==
    \/ ~ has_time_restrictions(role)
    \/ IF role.is_overnight_shift
       THEN Clock(t) >= Val(role.work_start_time) \/ Clock(t) < Val(role.work_end_time)
       ELSE Clock(t) >= Val(role.work_start_time) /\ Clock(t) < Val(role.work_end_time)

\* The next window start after an instant outside the window: the same day
\* if that day's window has not started yet, the next day otherwise
NextWindowStart(t, role) ==
    IF Clock(t) < Val(role.work_start_time)
    THEN (t - Clock(t)) + Val(role.work_start_time)
    ELSE (t - Clock(t)) + DayLen + Val(role.work_start_time)

\* An iteration of the generation loop emits slots in this step
SlotsEmitted ==
    /\ pc = "gen_loop"
    /\ iter_count' = iter_count + 1
    /\ generated_slot_objects' /= generated_slot_objects

\* C24 (cursor advance): after the slots of [cursor, slotEnd) the next cursor
\* is cursor + shiftDuration (unclipped) if that instant is inside the role's
\* window or the role has none; otherwise it is the next window start after
\* that instant, capped at the period end.
C24_CursorAdvance ==
    [][ SlotsEmitted =>
          LET t == current_dt_for_role + get_duration_timedelta(CurrentRole)
          IN  current_dt_for_role' =
                 IF InsideWindow(t, CurrentRole) THEN t
                 ELSE Min2(NextWindowStart(t, CurrentRole), period.end) ]_vars

\* C24 as the code has it: the same-day window start of a day window is
\* taken as it is, also when it lies after the period end
C24_CursorAdvanceUncapped ==
    [][ SlotsEmitted =>
          LET t == current_dt_for_role + get_duration_timedelta(CurrentRole)
              sameDay == ~ CurrentRole.is_overnight_shift
                            /\ Clock(t) < Val(CurrentRole.work_start_time)
          IN  current_dt_for_role' =
                 IF InsideWindow(t, CurrentRole) THEN t
                 ELSE IF sameDay THEN NextWindowStart(t, CurrentRole)
                 ELSE Min2(NextWindowStart(t, CurrentRole), period.end) ]_vars

\* C24 witness: a day-window role whose shift ran past the window; the
\* cursor was moved to the window start of the day of cursor + duration,
\* which lies after the period end
C24_Witness ==
    /\ pc = "gen_loop"
    /\ generated_slot_objects /= << >>
    /\ has_time_restrictions(CurrentRole)
    /\ ~ CurrentRole.is_overnight_shift
    /\ Clock(current_dt_for_role) = Val(CurrentRole.work_start_time)
    /\ current_dt_for_role > period.end

\* C25 (role window well-formedness): every stored role with a work window
\* has work_start_time > work_end_time if it is overnight and work_start_time
\* < work_end_time if it is not; every stored role has number_needed >= 1 and
\* a positive duration.
C25_WellFormedRoles ==
    \A r \in Range(db_roles) :
        /\ r.number_needed >= 1
        /\ get_duration_timedelta(r) > 0
        /\ has_time_restrictions(r) =>
              IF r.is_overnight_shift
              THEN Val(r.work_start_time) > Val(r.work_end_time)
              ELSE Val(r.work_start_time) < Val(r.work_end_time)

\* The part of C25 the forms enforce: headcount, duration, and the order of
\* the clock times of a window that is not overnight
C25_StoredRolesChecked ==
    \A r \in Range(db_roles) :
        /\ r.number_needed >= 1
        /\ get_duration_timedelta(r) >= 20
        /\ (has_time_restrictions(r) /\ ~ r.is_overnight_shift)
              => Val(r.work_start_time) < Val(r.work_end_time)

\* A role without window, or with a window whose clock times are in the order
\* its overnight flag announces
WellFormedWindow(role) ==
    has_time_restrictions(role) =>
        IF role.is_overnight_shift
        THEN Val(role.work_start_time) > Val(role.work_end_time)
        ELSE Val(role.work_start_time) < Val(role.work_end_time)

LoopIteration == pc = "gen_loop" /\ iter_count' = iter_count + 1

\* C26, safety part: in every iteration of the loop of a well-formed role the
\* cursor strictly increases, consecutive_invalid_slots stays 0, and an
\* iteration whose cursor lies inside the window emits the role's slots.
C26_IterationProgress ==
    [][ (LoopIteration /\ WellFormedWindow(CurrentRole)) =>
          /\ current_dt_for_role' > current_dt_for_role
          /\ consecutive_invalid_slots' = 0
          /\ is_time_within_role_restrictions(current_dt_for_role, CurrentRole) =>
                Len(generated_slot_objects') =
                   Len(generated_slot_objects) + CurrentRole.number_needed ]_vars

\* C26, liveness part: the loop of a well-formed role ends with the cursor at
\* or after the period end (no run of the specification comes near max_iter
\* iterations).
C26_LoopTerminates ==
    (pc = "role_start" /\ WellFormedWindow(CurrentRole))
        ~> (pc = "gen_done" /\ current_dt_for_role >= period.end /\ iter_count < max_iter)

\* C26 (generator progress and termination): for every role with positive
\* duration and a well-formed window (or none), the cursor strictly increases
\* on every loop iteration, every iteration whose cursor lies inside the
\* window emits a slot (no degenerate iteration, consecutive_invalid_slots
\* stays 0), and the loop ends with cursor >= period.end.
C26_ProgressAndTermination == C26_IterationProgress /\ C26_LoopTerminates

\* The loop of an overnight role with a well-formed window has ended after
\* several iterations
C26_Witness ==
    /\ pc = "gen_done"
    /\ has_time_restrictions(db_roles[1])
    /\ db_roles[1].is_overnight_shift
    /\ WellFormedWindow(db_roles[1])
    /\ iter_count >= 3
    /\ Len(generated_slot_objects) = iter_count * db_roles[1].number_needed
    /\ current_dt_for_role >= period.end

\* The generated slots of instance 1, in generation order
FirstInstances == SelectSeq(generated_slot_objects, LAMBDA d : d.instance_number = 1)

\* Consecutive slots of the role start strictly later and do not overlap
DisjointIncreasing ==
    \A k \in 1..(Len(FirstInstances) - 1) :
        /\ FirstInstances[k].slot_start_datetime < FirstInstances[k + 1].slot_start_datetime
        /\ FirstInstances[k].slot_end_datetime <= FirstInstances[k + 1].slot_start_datetime

CoveredInstant(t) ==
    \E k \in DOMAIN generated_slot_objects :
        /\ generated_slot_objects[k].slot_start_datetime <= t
        /\ t < generated_slot_objects[k].slot_end_datetime

\* The instants at which an uncovered stretch of the period can begin: the
\* period start, the end of a slot, and the start of the window on each day
GapCandidates(role) ==
    { period.start }
    \cup { generated_slot_objects[k].slot_end_datetime : k \in DOMAIN generated_slot_objects }
    \cup (IF has_time_restrictions(role)
          THEN { d * DayLen + Val(role.work_start_time) : d \in 0..(period.end \div DayLen) }
          ELSE {})

Uncovered(role) ==
    { t \in GapCandidates(role) :
        /\ period.start <= t
        /\ t < period.end
        /\ is_time_within_role_restrictions(t, role)
        /\ ~ CoveredInstant(t) }

GenerationComplete == pc = "gen_done" /\ iter_count < max_iter

\* C27 (coverage without gaps or overlaps): when the generation of a role
\* ends below the iteration cap, its slots are pairwise non-overlapping with
\* strictly increasing starts, and every instant of the period at which the
\* role may be worked is covered by one of its slots.
C27_CoverageWithoutGaps ==
    GenerationComplete => (DisjointIncreasing /\ Uncovered(db_roles[1]) = {})

\* The parts of C27 that hold: the slots never overlap and start in strictly
\* increasing order, and a role without window is covered completely
C27_DisjointSlots ==
    /\ DisjointIncreasing
    /\ (GenerationComplete /\ ~ has_time_restrictions(db_roles[1])) => Uncovered(db_roles[1]) = {}

\* Stored assignments with a worker whose slot is stored
Staffed(assignments) ==
    { a \in assignments :
        a.worker_id /= None /\ \E sd \in db_slots : sd.id = Some(a.shift_definition_id) }

StoredSlotOf(a) == CHOOSE sd \in db_slots : sd.id = Some(a.shift_definition_id)

\* Two stored assignments of one worker overlap in time
DoubleBooked(assignments) ==
    \E a, b \in Staffed(assignments) :
        /\ a.id /= b.id
        /\ a.worker_id = b.worker_id
        /\ Max2(StoredSlotOf(a).slot_start_datetime, StoredSlotOf(b).slot_start_datetime)
             < Min2(StoredSlotOf(a).slot_end_datetime, StoredSlotOf(b).slot_end_datetime)

\* A stored assignment has a worker who is not qualified for the slot's role
UnqualifiedAssigned(assignments) ==
    \E a \in Staffed(assignments) :
        \E k \in DOMAIN db_workers :
            /\ Some(db_workers[k].id) = a.worker_id
            /\ StoredSlotOf(a).job_role_id \notin db_workers[k].qualified_roles

WorkerIn(assignments, assignment_id) ==
    (CHOOSE a \in assignments : a.id = assignment_id).worker_id

\* The request is an edit that names a stored worker
EditToStoredWorker ==
    /\ call' /= None
    /\ Val(call').fn = "edit_assignment_worker"
    /\ pc' = "manual_done"
    /\ Val(call').form.kind = "digits"
    /\ StoredWorker(Val(call').form.n) /= None
    /\ flashes' /= << << "danger", "definition_not_found" >> >>

\* The request is a swap with a stored assignment
SwapOfStored ==
    /\ call' /= None
    /\ Val(call').fn = "swap_assignments"
    /\ pc' = "manual_done"
    /\ StoredAssignment(Val(call').swap_with) /= None

\* C28, the edit: the assignment gets the worker of the form whatever the
\* qualification and overlap checks find, the other rows keep theirs
C28_EditSetsWorker ==
    [][ EditToStoredWorker =>
          \A a \in db_assignments :
              WorkerIn(db_assignments', a.id) =
                 IF a.id = Val(call').assignment_id THEN Some(Val(call').form.n)
                 ELSE a.worker_id ]_vars

\* C28, the swap: the two assignments exchange their workers, the other rows
\* keep theirs
C28_SwapExchanges ==
    [][ SwapOfStored =>
          \A a \in db_assignments :
              WorkerIn(db_assignments', a.id) =
                 IF a.id = Val(call').assignment_id
                 THEN WorkerIn(db_assignments, Val(call').swap_with)
                 ELSE IF a.id = Val(call').swap_with
                 THEN WorkerIn(db_assignments, Val(call').assignment_id)
                 ELSE a.worker_id ]_vars

\* C28, the automatic run: what it stores has no double booking and no
\* unqualified worker
C28_AutomaticRunKeepsInvariants ==
    [](EngineReturned => (~ DoubleBooked(db_assignments) /\ ~ UnqualifiedAssigned(db_assignments)))

\* C28 (manual edits bypass the hard constraints): edit_assignment_worker
\* sets the assignment's worker to any stored worker, qualified or not,
\* overlapping or not, with warnings only; swap_assignments exchanges the two
\* workers without any check; the no-double-booking and qualification
\* invariants hold for the states an automatic run alone produced.
C28_ManualEditsBypassConstraints ==
    C28_EditSetsWorker /\ C28_SwapExchanges /\ C28_AutomaticRunKeepsInvariants

\* After a manual edit that drew both warnings, a worker is stored on a slot
\* of a role they are not qualified for and on two overlapping slots
C28_Witness ==
    /\ pc = "manual_done"
    /\ call /= None
    /\ Val(call).fn = "edit_assignment_worker"
    /\ flashes = << << "warning", "not_qualified" >>, << "warning", "time_conflict" >>,
                    << "success", "reassigned" >> >>
    /\ DoubleBooked(db_assignments)
    /\ UnqualifiedAssigned(db_assignments)

\* The request ended with the warning that there is no role or no new slot
RunRejected ==
    /\ pc = "request_done"
    /\ flashes /= << >>
    /\ flashes[Len(flashes)] \in { << "warning", "no_roles" >>, << "warning", "no_new_slots" >> }

\* C30 (rejected runs leave the schedule unchanged): when the request ends
\* with the warning that the period has no job role, or that no slot could be
\* generated, the period's slots and assignments are the ones stored when the
\* request began.
C30_RejectedRunKeepsSchedule ==
    RunRejected =>
        (db_slots = db_at_start.slots /\ db_assignments = db_at_start.assignments)

\* What the handler does instead: a rejected run leaves the period without
\* any slot or assignment
C30_RejectedRunClearsSchedule ==
    RunRejected => (db_slots = {} /\ db_assignments = {})

\* Both requests have ended (by a redirect or by an exception)
BothComplete ==
    /\ other_request /= None
    /\ RunOver
    /\ Val(other_request).pc \in { "request_done", "request_raised" }

\* Two persisted slots with the same role, start and instance
DuplicateSlots ==
    \E a, b \in db_slots :
        /\ a /= b
        /\ a.job_role_id = b.job_role_id
        /\ a.slot_start_datetime = b.slot_start_datetime
        /\ a.instance_number = b.instance_number

AssignmentsOf(sd) == { a \in db_assignments : Some(a.shift_definition_id) = sd.id }

\* C29 (concurrent regeneration): after two interleaved generation requests
\* for the same period have both completed, the period holds the slots of
\* exactly one generation pass: no (role, start, instance) occurs in two
\* persisted slots, every persisted slot has exactly one assignment, and no
\* worker holds two overlapping slots.
C29_OnePassSurvives ==
    BothComplete =>
        /\ ~ DuplicateSlots
        /\ \A sd \in db_slots : Cardinality(AssignmentsOf(sd)) = 1
        /\ ~ DoubleBooked(db_assignments)

\* What holds under every interleaving: an assignment row belongs to one
\* slot, and no slot has two assignment rows
C29_AtMostOneAssignmentPerSlot ==
    \A sd \in db_slots : Cardinality(AssignmentsOf(sd)) <= 1

\* Both requests ended and the slots of both passes are stored, with the same
\* worker on both copies of a slot
C29_BothPassesStored ==
    /\ BothComplete
    /\ DuplicateSlots
    /\ DoubleBooked(db_assignments)

====
